---------------------------- MODULE Spec2Model ----------------------------
(***************************************************************************)
(* A model of the cxxlox bytecode virtual machine: its hash table          *)
(* (src/src/table.cpp), its object heap, string interning and garbage      *)
(* collector (object.cpp, gc.cpp, memory.cpp), its single-pass compiler    *)
(* (compiler.cpp) and its interpreter (vm.cpp).                            *)
(*                                                                         *)
(* Conventions.  A pointer is a natural number: 0 is nullptr, an object    *)
(* pointer is an index into heap.  A C++ function that returns a value and *)
(* changes state is an operator that returns a record holding the new      *)
(* state and the result.  Numbers are integers (the double arithmetic of   *)
(* the programs modelled here is exact on them).                           *)
(***************************************************************************)
EXTENDS Integers, Sequences, FiniteSets, TLC

RECURSIVE Exec(_, _, _)

(***************************************************************************)
(* Bounds of the model.                                                    *)
(***************************************************************************)
\* Number of distinct keys the table driver uses.
NumKeys == 5
\* Number of distinct values the table driver stores under a key it rewrites.
NumVals == 2
\* Number of keys the table driver rewrites with another value.
NumRewritten == 1

(***************************************************************************)
(* Values (value.hpp).                                                     *)
(***************************************************************************)
NULL == 0

makeNil == [type |-> "Nil"]
makeBool(b) == [type |-> "Bool", boolean |-> b]
makeNumber(d) == [type |-> "Number", number |-> d]
makeObj(o) == [type |-> "Obj", obj |-> o]

isNil(v) == v.type = "Nil"
isBool(v) == v.type = "Bool"
isNumber(v) == v.type = "Number"
isObj(v) == v.type = "Obj"

(***************************************************************************)
(* 32-bit unsigned arithmetic for hashes.  A uint32_t is kept as a pair of *)
(* 16-bit halves <<hi, lo>> so that no intermediate exceeds 2^31.          *)
(***************************************************************************)
Pow16 == 256 * 256

\* Bit k of the natural number a
BitOf(a, k) == (a \div (2 ^ k)) % 2

\* Bit k of a ^ b, at its place
XorBit(a, b, k) == ((BitOf(a, k) + BitOf(b, k)) % 2) * (2 ^ k)

\* a ^ c, for a 16-bit a and a byte c
XorByte(a, c) ==
    (a \div 256) * 256
    + ((XorBit(a, c, 0) + XorBit(a, c, 1)) + (XorBit(a, c, 2) + XorBit(a, c, 3)))
    + ((XorBit(a, c, 4) + XorBit(a, c, 5)) + (XorBit(a, c, 6) + XorBit(a, c, 7)))

\* hash ^= c, for a byte c
HashXor(h, c) == <<h[1], XorByte(h[2], c)>>

\* hash *= 16777619 (0x01000193), modulo 2^32
FnvPrimeHi == 256
FnvPrimeLo == 403
HashMulPrime(h) ==
    LET p == h[2] * FnvPrimeLo
    IN  << (h[1] * FnvPrimeLo + h[2] * FnvPrimeHi + (p \div Pow16)) % Pow16,
           p % Pow16 >>

\* 2166136261u = 0x811C9DC5
FnvOffsetHi == 33052
FnvOffsetLo == 40389

RECURSIVE hashFrom(_, _, _)
hashFrom(hash, chars, i) ==
    IF i > Len(chars) THEN hash
    ELSE LET next == HashMulPrime(HashXor(hash, chars[i]))
         IN  IF next[2] < 0 THEN next ELSE hashFrom(next, chars, i + 1)

hashString(chars) == hashFrom(<<FnvOffsetHi, FnvOffsetLo>>, chars, 1)

\* hash % capacity, for a capacity below 2^15
HashMod(h, capacity) ==
    ((h[1] % capacity) * (Pow16 % capacity) + h[2]) % capacity

(***************************************************************************)
(* Heap objects (object.hpp).  Every object record has the header fields   *)
(* type and isMarked; freed is TRUE once the allocation has been released. *)
(***************************************************************************)
ObjHeader(t) == [type |-> t, isMarked |-> FALSE, freed |-> FALSE]

\* A Vector or Array (vector.hpp, array.hpp): count_, capacity_ and the
\* first count_ elements of data.
NewVector == [count |-> 0, capacity |-> 0, data |-> <<>>]

NewChunk == [code |-> NewVector, constants |-> NewVector, lines |-> NewVector]

StringObj(chars, hash) ==
    [type |-> "String", isMarked |-> FALSE, freed |-> FALSE,
     chars |-> chars, length |-> Len(chars), hash |-> hash]

FunctionObj ==
    [type |-> "Function", isMarked |-> FALSE, freed |-> FALSE,
     chunk |-> NewChunk, name |-> NULL, arity |-> 0, upvalueCount |-> 0]

NativeObj ==
    [type |-> "Native", isMarked |-> FALSE, freed |-> FALSE, function |-> NULL]

BoundMethodObj(receiver, method) ==
    [type |-> "BoundMethod", isMarked |-> FALSE, freed |-> FALSE,
     receiver |-> receiver, method |-> method]

\* location is a slot index of the value stack while the upvalue is open
\* and ClosedLocation (&closed) afterwards.
ClosedLocation == -1
UpvalueObj(slot) ==
    [type |-> "Upvalue", isMarked |-> FALSE, freed |-> FALSE,
     location |-> slot, closed |-> makeNil, next |-> NULL]

\* The size in bytes of each object type on an LP64 platform, as used by
\* allocateObj and freeObj for the accounting of bytesAllocated.
SizeofObj(type) ==
    CASE type = "String" -> 40
      [] type = "Function" -> 80
      [] type = "Native" -> 24
      [] type = "BoundMethod" -> 40
      [] type = "Closure" -> 40
      [] type = "Upvalue" -> 48
      [] type = "Class" -> 40
      [] type = "Instance" -> 40

(***************************************************************************)
(* Hash table (table.hpp, table.cpp).  A table is a record of count_,      *)
(* capacity_ and entries_, the latter a function on 0..capacity_-1.        *)
(***************************************************************************)
EmptyEntry == [key |-> NULL, value |-> makeNil]

isTombstone(entry) == entry.key = NULL /\ ~isNil(entry.value)

\* A remove that empties the slot instead of leaving a tombstone.
setTombstoneCleared == [key |-> NULL, value |-> makeNil]
\* Entry::setTombstone
setTombstone == [key |-> NULL, value |-> makeBool(TRUE)]

NewTable == [count |-> 0, capacity |-> 0, entries |-> <<>>]

kMinCapacity == 8
kGrowthFactor == 2
\* A growth that would stop at the first capacity
growCapacityOnce(previousCapacity) == kMinCapacity

growCapacity(previousCapacity) ==
    IF previousCapacity < kMinCapacity THEN kMinCapacity
    ELSE previousCapacity * kGrowthFactor

\* The probe loop never returns after a whole turn without an empty slot.
NoEntry == -1

RECURSIVE findEntryLoop(_, _, _, _, _, _)
findEntryLoop(entries, capacity, key, index, tombstone, probed) ==
    IF probed >= capacity THEN NoEntry
    ELSE LET entry == entries[index]
         IN  IF entry.key = NULL
             THEN IF ~isTombstone(entry)
                  THEN (IF tombstone # NoEntry THEN tombstone ELSE index)
                  ELSE findEntryLoop(entries, capacity, key, (index + 1) % capacity,
                                     IF tombstone = NoEntry THEN index ELSE tombstone,
                                     probed + 1)
             ELSE IF entry.key = key
                  THEN index
                  ELSE findEntryLoop(entries, capacity, key, (index + 1) % capacity,
                                     tombstone, probed + 1)

\* Table::findEntry: the index of the slot of key, or of the slot to put it in.
findEntry(hp, entries, capacity, key) ==
    findEntryLoop(entries, capacity, key, HashMod(hp[key].hash, capacity), NoEntry, 0)

RECURSIVE adjustCapacityCopy(_, _, _, _, _, _)
adjustCapacityCopy(hp, t, newEntries, newCapacity, newCount, i) ==
    IF i >= t.capacity
    THEN [count |-> newCount, capacity |-> newCapacity, entries |-> newEntries]
    ELSE LET src == t.entries[i]
         IN  IF src.key = NULL
             THEN adjustCapacityCopy(hp, t, newEntries, newCapacity, newCount, i + 1)
             ELSE LET dest == findEntry(hp, newEntries, newCapacity, src.key)
                  IN  adjustCapacityCopy(hp, t,
                          [newEntries EXCEPT ![dest] = [key |-> src.key, value |-> src.value]],
                          newCapacity, newCount + 1, i + 1)

\* Table::adjustCapacity
adjustCapacity(hp, t) ==
    LET newCapacity == growCapacity(t.capacity)
    IN  adjustCapacityCopy(hp, t, [i \in 0 .. newCapacity - 1 |-> EmptyEntry],
                           newCapacity, 0, 0)

\* count_ + 1 >= capacity_ * kMaxLoadFactor, with kMaxLoadFactor = 0.75 = 3/4
kMaxLoadNum == 3
kMaxLoadDen == 4
\* A load factor of 1: growth only when the set takes the last slot
OverLoadFull(t) == t.count + 1 >= t.capacity
OverLoad(t) == kMaxLoadDen * (t.count + 1) >= kMaxLoadNum * t.capacity

\* isNewKey as Table::set computes it
setIsNewKey(entry) == entry.key = NULL /\ ~isTombstone(entry)

\* Table::set: [table |-> the table afterwards, result |-> the bool returned]
TableSet(hp, t, key, value) ==
    LET t1 == IF OverLoad(t) THEN adjustCapacity(hp, t) ELSE t
        e == findEntry(hp, t1.entries, t1.capacity, key)
        isNewKey == setIsNewKey(t1.entries[e])
    IN  [table |-> [t1 EXCEPT !.count = IF isNewKey THEN @ + 1 ELSE @,
                              !.entries[e] = [key |-> key, value |-> value]],
         result |-> isNewKey]

\* Table::get: [result |-> the bool returned, value |-> *outValue when set]
TableGet(hp, t, key) ==
    IF t.count = 0 THEN [result |-> FALSE, value |-> makeNil]
    ELSE LET e == findEntry(hp, t.entries, t.capacity, key)
         IN  IF t.entries[e].key = NULL
             THEN [result |-> FALSE, value |-> makeNil]
             ELSE [result |-> TRUE, value |-> t.entries[e].value]

\* Table::remove
TableRemove(hp, t, key) ==
    IF t.count = 0 THEN [table |-> t, result |-> FALSE]
    ELSE LET e == findEntry(hp, t.entries, t.capacity, key)
         IN  IF t.entries[e].key = NULL
             THEN [table |-> t, result |-> FALSE]
             ELSE [table |-> [t EXCEPT !.entries[e] = setTombstone], result |-> TRUE]

\* The upper limit (exclusive) of the slots Table::addAll reads from other.
addAllLimit(other) == other.count

RECURSIVE addAllLoop(_, _, _, _)
addAllLoop(hp, t, other, i) ==
    IF i >= addAllLimit(other) THEN t
    ELSE LET entry == other.entries[i]
         IN  IF entry.key # NULL
             THEN addAllLoop(hp, TableSet(hp, t, entry.key, entry.value).table, other, i + 1)
             ELSE addAllLoop(hp, t, other, i + 1)

\* Table::addAll: the receiving table afterwards
TableAddAll(hp, t, other) == addAllLoop(hp, t, other, 0)

\* The keys stored in a table.
TableKeys(t) == {t.entries[i].key : i \in 0 .. t.capacity - 1} \ {NULL}

RECURSIVE findKeyLoop(_, _, _, _, _, _, _)
findKeyLoop(hp, t, chars, hash, index, probed, uaf) ==
    IF probed >= t.capacity THEN [key |-> NoEntry, uaf |-> uaf]
    ELSE LET entry == t.entries[index]
         IN  IF entry.key = NULL
             THEN IF ~isTombstone(entry)
                  THEN [key |-> NULL, uaf |-> uaf]
                  ELSE findKeyLoop(hp, t, chars, hash, (index + 1) % t.capacity,
                                   probed + 1, uaf)
             ELSE LET k == hp[entry.key]
                  IN  IF k.length = Len(chars) /\ k.hash = hash /\ k.chars = chars
                      THEN [key |-> entry.key, uaf |-> uaf \/ k.freed]
                      ELSE findKeyLoop(hp, t, chars, hash, (index + 1) % t.capacity,
                                       probed + 1, uaf \/ k.freed)

\* Table::findKey: [key |-> the key found or NULL, uaf |-> whether the probe
\* read the length, hash or chars of a key that has been freed]
findKey(hp, t, chars, hash) ==
    IF t.count = 0 THEN [key |-> NULL, uaf |-> FALSE]
    ELSE findKeyLoop(hp, t, chars, hash, HashMod(hash, t.capacity), 0, FALSE)

RECURSIVE removeUnmarkedLoop(_, _, _)
removeUnmarkedLoop(hp, t, i) ==
    IF i >= t.capacity THEN t
    ELSE LET entry == t.entries[i]
         IN  IF entry.key # NULL /\ ~hp[entry.key].isMarked
             THEN removeUnmarkedLoop(hp, TableRemove(hp, t, entry.key).table, i + 1)
             ELSE removeUnmarkedLoop(hp, t, i + 1)

\* Table::removeUnmarked
removeUnmarked(hp, t) == removeUnmarkedLoop(hp, t, 0)

\* Does a call of set, get or remove with this key read a freed String:
\* the key itself (key->hash), or a key re-inserted by adjustCapacity?
TableReadsFreed(hp, t, key, mayGrow) ==
    \/ hp[key].freed
    \/ /\ mayGrow
       /\ OverLoad(t)
       /\ \E k \in TableKeys(t) : hp[k].freed

ClosureObj(fn, upvalues) ==
    [type |-> "Closure", isMarked |-> FALSE, freed |-> FALSE,
     function |-> fn, upvalues |-> upvalues]

ClassObj(name) ==
    [type |-> "Class", isMarked |-> FALSE, freed |-> FALSE,
     name |-> name, methods |-> NewTable]

InstanceObj(klass) ==
    [type |-> "Instance", isMarked |-> FALSE, freed |-> FALSE,
     klass |-> klass, fields |-> NewTable]

(***************************************************************************)
(* The machine: the singletons VM and GC (vm.hpp, gc.hpp), the heap, the   *)
(* parser and the chain of compilers of a compilation under way.  The      *)
(* operators below take a machine record m and return the machine          *)
(* afterwards; a C++ return value is left in the field ret.                *)
(*                                                                         *)
(* fault records that the process has left defined behaviour: "abort"      *)
(* after std::abort() (a failed CL_ASSERT of the CL_DEBUG build, or        *)
(* CL_FATAL), "undefined" after undefined behaviour (an access outside an  *)
(* array, a read or write of freed memory), "hang" when a probe loop       *)
(* cannot return, "unmodelled" when a number leaves the numbers the model  *)
(* has.  ubTraps is the outcome of a read or write of freed memory and of  *)
(* a read outside an array whose result is only printed:                   *)
(* the access ends the process (TRUE), or it finds the bytes that were     *)
(* last there and the process runs on (FALSE); undefined records that      *)
(* such an access has happened.                                            *)
(* ended is TRUE from the first fault on: the process has ended, and no    *)
(* function runs any more.                                                 *)
(***************************************************************************)
kInitialNextGC == 128
kGCHeapGrowFactor == 2
kFramesMax == 64
kUInt8Count == 256
kStackMax == kFramesMax * kUInt8Count

\* Token {} (token.hpp)
NoToken == [type |-> "Eof", lexeme |-> <<>>, line |-> 0]

NoParser ==
    [current |-> NoToken, previous |-> NoToken, hadError |-> FALSE, panicMode |-> FALSE]

\* Scanner {} (scanner.hpp): start and current are offsets into source
NoScanner == [source |-> <<>>, start |-> 0, current |-> 0, line |-> 1]

\* The machine after static initialisation, for a build with or without
\* CL_DEBUG and DEBUG_STRESS_GC.
NewVM(debug, stressGC, ubTraps) ==
    [heap |-> <<>>,
     objects |-> <<>>, strings |-> NewTable, grayStack |-> <<>>,
     bytesAllocated |-> 0, nextGC |-> kInitialNextGC,
     stack |-> <<>>, stackTop |-> 0,
     frames |-> <<>>, frameCount |-> 0,
     openUpvalues |-> NULL, globals |-> NewTable,
     initString |-> NULL, loadedNativeFunctions |-> FALSE,
     scanner |-> NoScanner, parser |-> NoParser, compilers |-> <<>>, active |-> NULL,
     classCompilers |-> <<>>, classCompiler |-> NULL,
     out |-> <<>>, err |-> <<>>, trace |-> <<>>, clock |-> 0,
     fault |-> "none", ended |-> FALSE, undefined |-> FALSE, ret |-> NULL,
     debug |-> debug, stressGC |-> stressGC, ubTraps |-> ubTraps]

Fault(m, kind) == IF m.ended THEN m ELSE [m EXCEPT !.fault = kind, !.ended = TRUE]

\* A failed CL_ASSERT: std::abort() in the CL_DEBUG build, nothing otherwise.
AssertFailed(m) == IF m.debug THEN Fault(m, "abort") ELSE m

\* An access to freed memory, or a read outside an array.
UndefinedAccess(m) ==
    IF m.ubTraps THEN Fault(m, "undefined") ELSE [m EXCEPT !.undefined = TRUE]

\* An access through a pointer to the object obj
Deref(m, obj) ==
    IF m.ended THEN m
    ELSE IF m.heap[obj].freed THEN UndefinedAccess(m) ELSE m

\* Obj::to<T>() and Value::toObj() on a value of another type: the CL_ASSERT
\* fails, and without it the memory is reinterpreted.
BadCast(m) == Fault(AssertFailed(m), "undefined")

\* The process runs on only while no fault has happened.
Running(m) == ~m.ended

(***************************************************************************)
(* Value stack (vm.cpp).  stack holds the slots written so far, slot i of  *)
(* the C++ array being stack[i + 1]; the slots never written hold the      *)
(* zero-initialised Value, a Bool false.                                   *)
(***************************************************************************)
ZeroValue == makeBool(FALSE)

StackAt(m, i) == IF i >= 0 /\ i < Len(m.stack) THEN m.stack[i + 1] ELSE ZeroValue

StackPut(stack, i, value) ==
    [j \in 1 .. (IF i + 1 > Len(stack) THEN i + 1 ELSE Len(stack)) |->
        IF j = i + 1 THEN value
        ELSE IF j <= Len(stack) THEN stack[j] ELSE ZeroValue]

\* VM::push: below the array (after a pop of the empty stack) the CL_ASSERT
\* passes and the value is written in front of the array
push(m, value) ==
    IF m.stackTop >= kStackMax
    THEN Fault(AssertFailed(m), "undefined")
    ELSE IF m.stackTop < 0
    THEN LET m1 == UndefinedAccess(m)
         IN  IF m1.ended THEN m1 ELSE [m1 EXCEPT !.stackTop = @ + 1]
    ELSE [m EXCEPT !.stack = StackPut(@, m.stackTop, value),
                   !.stackTop = @ + 1]

\* VM::pop: the value popped is left in ret.  On the empty stack the
\* CL_ASSERT fails; without it stackTop moves in front of the array and the
\* value is read from there.
pop(m) ==
    IF m.stackTop > 0
    THEN [m EXCEPT !.stackTop = @ - 1, !.ret = StackAt(m, m.stackTop - 1)]
    ELSE LET m1 == UndefinedAccess(IF m.stackTop = 0 THEN AssertFailed(m) ELSE m)
         IN  IF m1.ended THEN m1
             ELSE [m1 EXCEPT !.stackTop = @ - 1, !.ret = ZeroValue]

\* VM::peek
peek(m, distance) == StackAt(m, m.stackTop - 1 - distance)

\* VM::resetStack
resetStack(m) == [m EXCEPT !.stackTop = 0]

(***************************************************************************)
(* Garbage collector (memory.cpp, gc.cpp, VM::markRoots).                  *)
(***************************************************************************)
\* The pointers that markValue passes on to markObject, for the values
\* vals[1], ..., vals[n]
markValue(vals, n) ==
    {vals[i].obj : i \in {k \in 1 .. n : isObj(vals[k])}}

\* Table::mark: the key and the value of each of the capacity_ entries
markTable(t) ==
    {t.entries[i].key : i \in 0 .. t.capacity - 1}
        \cup {t.entries[i].value.obj : i \in {k \in 0 .. t.capacity - 1 : isObj(t.entries[k].value)}}

\* The upvalues on the list of open upvalues from upvalue on
RECURSIVE openUpvalueList(_, _)
openUpvalueList(m, upvalue) ==
    IF upvalue = NULL THEN {}
    ELSE {upvalue} \cup openUpvalueList(m, m.heap[upvalue].next)

\* The functions of the compilers from compiler outwards
RECURSIVE compilerFunctions(_, _)
compilerFunctions(m, compiler) ==
    IF compiler = NULL THEN {}
    ELSE {m.compilers[compiler].function} \cup compilerFunctions(m, m.compilers[compiler].enclosing)

\* markActiveCompilers (compiler.cpp)
markActiveCompilers(m) == compilerFunctions(m, m.active)

\* markObject for each pointer of ptrs: an object not yet marked is marked
\* and pushed on the gray stack.  Marking a freed object reads and writes
\* freed memory.  The marks left by a collection do not depend on the
\* order in which the objects are marked, so one step marks them all.
markObject(m, ptrs) ==
    LET objs == ptrs \ {NULL}
        white == {obj \in objs : ~m.heap[obj].isMarked}
    IN  IF m.ubTraps /\ \E obj \in objs : m.heap[obj].freed THEN Fault(m, "undefined")
        ELSE [m EXCEPT !.heap = [obj \in DOMAIN @ |->
                                    IF obj \in white THEN [@[obj] EXCEPT !.isMarked = TRUE] ELSE @[obj]],
                       !.grayStack = @ \o SelectSeq([obj \in DOMAIN m.heap |-> obj], LAMBDA obj : obj \in white),
                       !.undefined = @ \/ \E obj \in white : m.heap[obj].freed]

\* VM::markRoots
markRoots(m) ==
    markObject(m, markValue(m.stack, m.stackTop)
                    \cup {m.frames[f].closure : f \in 1 .. m.frameCount}
                    \cup openUpvalueList(m, m.openUpvalues)
                    \cup markTable(m.globals)
                    \cup markActiveCompilers(m)
                    \cup {m.initString})

\* A blackenObj that would trace no reference
blackenNothing(m, obj) == {}

\* blackenObj: the pointers it passes to markObject
blackenObj(m, obj) ==
    LET o == m.heap[obj]
    IN  CASE o.type = "BoundMethod" -> markValue(<<o.receiver>>, 1) \cup {o.method}
          [] o.type = "String" -> {}
          [] o.type = "Native" -> {}
          [] o.type = "Upvalue" -> markValue(<<o.closed>>, 1)
          [] o.type = "Closure" -> {o.function} \cup {o.upvalues.data[i] : i \in 1 .. o.upvalues.count}
          [] o.type = "Class" -> {o.name} \cup markTable(o.methods)
          [] o.type = "Instance" -> {o.klass} \cup markTable(o.fields)
          [] o.type = "Function" -> {o.name} \cup markValue(o.chunk.constants.data, o.chunk.constants.count)

\* GC::traceReferences: the loop empties the gray stack; each turn of the
\* model blackens all the objects that are gray at that time.
RECURSIVE traceReferences(_)
traceReferences(m) ==
    IF m.ended \/ Len(m.grayStack) = 0 THEN m
    ELSE traceReferences(markObject([m EXCEPT !.grayStack = <<>>],
                                    UNION {blackenObj(m, m.grayStack[i]) : i \in 1 .. Len(m.grayStack)}))

\* The bytes that freeObj gives back for the objects of garbage
freeObj(m, garbage) ==
    LET ofType(type) == Cardinality({obj \in garbage : m.heap[obj].type = type}) * SizeofObj(type)
    IN  ((ofType("String") + ofType("Function")) + (ofType("Native") + ofType("BoundMethod")))
        + ((ofType("Closure") + ofType("Upvalue")) + (ofType("Class") + ofType("Instance")))

\* A sweep that would free the unmarked objects and leave them linked
sweepWithoutUnlink(m) ==
    LET listed == {m.objects[i] : i \in 1 .. Len(m.objects)}
        garbage == {obj \in listed : ~m.heap[obj].isMarked}
    IN  [m EXCEPT !.heap = [obj \in DOMAIN @ |->
                               IF obj \in garbage THEN [@[obj] EXCEPT !.freed = TRUE]
                               ELSE IF obj \in listed THEN [@[obj] EXCEPT !.isMarked = FALSE]
                               ELSE @[obj]],
                  !.bytesAllocated = @ - freeObj(m, garbage)]

\* A sweep that would leave the surviving objects marked
sweepKeepingMarks(m) ==
    LET listed == {m.objects[i] : i \in 1 .. Len(m.objects)}
        garbage == {obj \in listed : ~m.heap[obj].isMarked}
    IN  [m EXCEPT !.heap = [obj \in DOMAIN @ |->
                               IF obj \in garbage THEN [@[obj] EXCEPT !.freed = TRUE]
                               ELSE @[obj]],
                  !.bytesAllocated = @ - freeObj(m, garbage),
                  !.objects = SelectSeq(@, LAMBDA obj : m.heap[obj].isMarked)]

\* GC::sweep: a marked object of the list is unmarked and kept, any other
\* is unlinked and freed.
sweep(m) ==
    LET listed == {m.objects[i] : i \in 1 .. Len(m.objects)}
        garbage == {obj \in listed : ~m.heap[obj].isMarked}
    IN  [m EXCEPT !.heap = [obj \in DOMAIN @ |->
                               IF obj \in garbage THEN [@[obj] EXCEPT !.freed = TRUE]
                               ELSE IF obj \in listed THEN [@[obj] EXCEPT !.isMarked = FALSE]
                               ELSE @[obj]],
                  !.bytesAllocated = @ - freeObj(m, garbage),
                  !.objects = SelectSeq(@, LAMBDA obj : m.heap[obj].isMarked)]

\* The line `strings.removeUnmarked()` of GC::garbageCollect, which the
\* source has commented out.
gcRemoveUnmarkedStrings(m) == m

\* GC::garbageCollect
garbageCollect(m) ==
    LET m1 == Exec("traceReferences", Exec("markRoots", m, <<>>), <<>>)
        m2 == Exec("sweep", gcRemoveUnmarkedStrings(m1), <<>>)
    IN  CASE m1.ended -> m1
          [] m2.ended -> m2
          [] OTHER ->
        [m2 EXCEPT !.nextGC = m2.bytesAllocated * kGCHeapGrowFactor]

\* GC::wantsToGarbageCollect
wantsToGarbageCollect(m) == m.bytesAllocated > m.nextGC

\* realloc (memory.cpp) for a request of newSize bytes in place of oldSize
realloc(m, oldSize, newSize) ==
    LET m1 == [m EXCEPT !.bytesAllocated = @ + newSize - oldSize]
    IN  IF newSize = 0 THEN m1
        ELSE IF m1.stressGC \/ wantsToGarbageCollect(m1)
        THEN Exec("garbageCollect", m1, <<>>)
        ELSE m1

\* GC::track
track(m, obj) == [m EXCEPT !.objects = <<obj>> \o @]

\* allocateObj<T>(): the pointer to the new object is left in ret
allocateObj(m, object) ==
    LET m1 == Exec("realloc", m, <<0, SizeofObj(object.type)>>)
        t == Len(m1.heap) + 1
    IN  [track([m1 EXCEPT !.heap = Append(@, object)], t) EXCEPT !.ret = t]

(***************************************************************************)
(* Growable sequences tracked by the collector (vector.hpp, array.hpp).    *)
(* The vector afterwards is left in ret.                                   *)
(***************************************************************************)
\* A reserve that would never give capacity back
vectorReserveGrowOnly(m, v, newCapacity, elemSize) ==
    IF newCapacity < v.capacity THEN [m EXCEPT !.ret = v]
    ELSE LET m1 == Exec("realloc", m, <<elemSize * v.capacity, elemSize * newCapacity>>)
         IN  [m1 EXCEPT !.ret = [v EXCEPT !.capacity = newCapacity]]

\* Vector::reserve, for elements of elemSize bytes
vectorReserve(m, vec, newCapacity, elemSize) ==
    IF newCapacity < vec.count THEN [m EXCEPT !.ret = vec]
    ELSE LET m1 == Exec("realloc", m, <<elemSize * vec.capacity, elemSize * newCapacity>>)
         IN  [m1 EXCEPT !.ret = [vec EXCEPT !.capacity = newCapacity]]

\* Vector::push and Array::write
vectorPush(m, vec, value, elemSize) ==
    LET m1 == IF vec.capacity < vec.count + 1
              THEN Exec("vectorReserve", m, <<vec, growCapacity(vec.capacity), elemSize>>)
              ELSE [m EXCEPT !.ret = vec]
    IN  [m1 EXCEPT !.ret = [m1.ret EXCEPT !.data = Append(@, value),
                                          !.count = @ + 1]]

\* Vector::reserve without TrackWithGC: new T[newCapacity], std::copy and
\* delete[]
vectorReserveUntracked(v, newCapacity) ==
    IF newCapacity < v.count THEN v ELSE [v EXCEPT !.capacity = newCapacity]

\* Vector::push and Array::write without TrackWithGC
vectorPushUntracked(v, value) ==
    LET v1 == IF v.capacity < v.count + 1
              THEN vectorReserveUntracked(v, growCapacity(v.capacity))
              ELSE v
    IN  [v1 EXCEPT !.data = Append(@, value), !.count = @ + 1]

\* Vector::clear and Array::free
vectorClear(v) == NewVector

(***************************************************************************)
(* Strings (object.cpp).  GC::lookup and GC::intern are declared in gc.hpp *)
(* and defined nowhere in the sources; they are modelled as the            *)
(* specification describes them, on the table GC::strings.                 *)
(***************************************************************************)
\* GC::lookup: the result of findKey on the intern table
lookup(m, chars, hash) == findKey(m.heap, m.strings, chars, hash)

\* GC::intern
intern(m, str) ==
    LET m1 == IF TableReadsFreed(m.heap, m.strings, str, TRUE)
              THEN UndefinedAccess(m) ELSE m
    IN  [m1 EXCEPT !.strings = TableSet(m.heap, m.strings, str, makeNil).table]

\* allocateString: the new String is left in ret
allocateString(m, chars, hash) ==
    LET m1 == Exec("allocateObj", m, <<StringObj(chars, hash)>>)
        str == m1.ret
        m2 == Exec("push", m1, <<makeObj(str)>>)
        m3 == Exec("intern", m2, <<str>>)
        m4 == Exec("pop", m3, <<>>)
    IN  CASE m1.ended -> [m1 EXCEPT !.ret = NULL]
          [] m2.ended -> [m2 EXCEPT !.ret = NULL]
          [] m3.ended -> [m3 EXCEPT !.ret = NULL]
          [] m4.ended -> [m4 EXCEPT !.ret = NULL]
          [] OTHER ->
        [m4 EXCEPT !.ret = str]

\* What copyString and takeString do with the outcome of lookup.
internedOrNew(m, chars, hash) ==
    LET r == lookup(m, chars, hash)
        m1 == IF r.uaf THEN UndefinedAccess(m) ELSE m
    IN  IF r.key = NoEntry THEN [Fault(m1, "hang") EXCEPT !.ret = NULL]
        ELSE IF r.key # NULL THEN [m1 EXCEPT !.ret = r.key]
        ELSE Exec("allocateString", m1, <<chars, hash>>)

\* copyString(chars, length): the String is left in ret
copyString(m, chars) ==
    Exec("internedOrNew", m, <<chars, hashString(chars)>>)

\* takeString(chars, length): the String is left in ret
takeString(m, chars) ==
    Exec("internedOrNew", m, <<chars, hashString(chars)>>)

(***************************************************************************)
(* Chunks of bytecode (chunk.hpp, chunk.cpp).                              *)
(***************************************************************************)
OP_CONSTANT == 0
OP_ADD == 1
OP_SUBTRACT == 2
OP_MULTIPLY == 3
OP_DIVIDE == 4
OP_NOT == 5
OP_NEGATE == 6
OP_PRINT == 7
OP_JUMP == 8
OP_JUMP_IF_FALSE == 9
OP_LOOP == 10
OP_CALL == 11
OP_INVOKE == 12
OP_SUPER_INVOKE == 13
OP_CLOSURE == 14
OP_CLOSE_UPVALUE == 15
OP_POP == 16
OP_GET_LOCAL == 17
OP_GET_GLOBAL == 18
OP_DEFINE_GLOBAL == 19
OP_GET_UPVALUE == 20
OP_SET_UPVALUE == 21
OP_SET_LOCAL == 22
OP_SET_GLOBAL == 23
OP_SET_PROPERTY == 24
OP_GET_PROPERTY == 25
OP_RETURN == 26
OP_CLASS == 27
OP_GET_SUPER == 28
OP_INHERIT == 29
OP_METHOD == 30
OP_EQUAL == 31
OP_GREATER == 32
OP_LESS == 33
OP_NIL == 34
OP_TRUE == 35
OP_FALSE == 36

\* sizeof of the element types of the three vectors of a Chunk
SizeofByte == 1
SizeofLine == 4
SizeofValue == 16
\* sizeof(ObjUpvalue*)
SizeofPointer == 8

\* Chunk::write on the chunk of the Function fn
chunkWrite(m, fn, byte, line) ==
    LET m1 == Exec("vectorPush", m, <<m.heap[fn].chunk.code, byte, SizeofByte>>)
        m2 == [m1 EXCEPT !.heap[fn].chunk.code = m1.ret]
        m3 == Exec("vectorPush", m2, <<m2.heap[fn].chunk.lines, line, SizeofLine>>)
    IN  CASE m1.ended -> m1
          [] m2.ended -> m2
          [] m3.ended -> m3
          [] OTHER ->
        [m3 EXCEPT !.heap[fn].chunk.lines = m3.ret]

\* Chunk::addConstant on the chunk of the Function fn: the index is left in ret
addConstant(m, fn, value) ==
    LET m1 == Exec("vectorPush", m, <<m.heap[fn].chunk.constants, value, SizeofValue>>)
    IN  [m1 EXCEPT !.heap[fn].chunk.constants = m1.ret,
                   !.ret = m1.ret.count - 1]

(***************************************************************************)
(* Scanner (scanner.cpp).  source holds the bytes of the program text      *)
(* before its terminating NUL; characters are their ASCII codes.           *)
(***************************************************************************)
\* The byte at an offset of the NUL-terminated source
CharAt(sc, i) == IF i >= 0 /\ i < Len(sc.source) THEN sc.source[i + 1] ELSE 0

\* initScanner
initScanner(source) == [source |-> source, start |-> 0, current |-> 0, line |-> 1]

scanIsAtEnd(sc) == CharAt(sc, sc.current) = 0

scanPeek(sc) == CharAt(sc, sc.current)

scanPeekNext(sc) == IF scanIsAtEnd(sc) THEN 0 ELSE CharAt(sc, sc.current + 1)

scanAdvance(sc) == [sc EXCEPT !.current = @ + 1]

currentLexemeSize(sc) == sc.current - sc.start

\* The loop of skipWhitespace over the rest of a line comment
RECURSIVE skipComment(_)
skipComment(sc) ==
    IF ~scanIsAtEnd(sc) /\ scanPeek(sc) # 10 THEN skipComment(scanAdvance(sc)) ELSE sc

\* skipWhitespace
RECURSIVE skipWhitespace(_)
skipWhitespace(sc) ==
    LET ch == scanPeek(sc)
    IN  CASE ch \in {32, 13, 9} -> skipWhitespace(scanAdvance(sc))
          [] ch = 10 -> skipWhitespace(scanAdvance([sc EXCEPT !.line = @ + 1]))
          [] ch = 47 -> IF scanPeekNext(sc) = 47 THEN skipWhitespace(skipComment(sc)) ELSE sc
          [] OTHER -> sc

\* makeToken
makeToken(sc, type) ==
    [type |-> type, lexeme |-> SubSeq(sc.source, sc.start + 1, sc.current), line |-> sc.line]

\* errorToken: the lexeme of an Error token is the message
errorToken(sc, message) == [type |-> "Error", lexeme |-> message, line |-> sc.line]

isDigit(ch) == ch >= 48 /\ ch <= 57

isAlpha(ch) == (ch >= 97 /\ ch <= 122) \/ (ch >= 65 /\ ch <= 90) \/ ch = 95

\* makeString: the scanner afterwards and the token
RECURSIVE makeString(_)
makeString(sc) ==
    IF scanPeek(sc) # 34 /\ ~scanIsAtEnd(sc)
    THEN makeString(scanAdvance(IF scanPeek(sc) = 10 THEN [sc EXCEPT !.line = @ + 1] ELSE sc))
    ELSE IF scanIsAtEnd(sc)
    THEN [scanner |-> sc, token |-> errorToken(sc, "Unterminated string.")]
    ELSE [scanner |-> scanAdvance(sc), token |-> makeToken(scanAdvance(sc), "String")]

RECURSIVE scanDigits(_)
scanDigits(sc) == IF isDigit(scanPeek(sc)) THEN scanDigits(scanAdvance(sc)) ELSE sc

\* number (scanner.cpp)
scanNumber(sc) ==
    LET s1 == scanDigits(sc)
        s2 == IF scanPeek(s1) = 46 THEN scanDigits(scanAdvance(s1)) ELSE s1
    IN  [scanner |-> s2, token |-> makeToken(s2, "Number")]

\* checkKeyword: compares the bytes that follow the first charsAlreadyMatched
\* bytes of the lexeme, as many as remaining has, with remaining
checkKeyword(sc, charsAlreadyMatched, remaining, keyword) ==
    IF \A i \in 1 .. Len(remaining) :
           CharAt(sc, sc.start + charsAlreadyMatched + i - 1) = remaining[i]
    THEN keyword ELSE "Identifier"

\* identifierType
identifierType(sc) ==
    LET c0 == CharAt(sc, sc.start)
        c1 == CharAt(sc, sc.start + 1)
    IN  CASE c0 = 97 -> checkKeyword(sc, 1, <<110, 100>>, "And")
          [] c0 = 99 -> checkKeyword(sc, 1, <<108, 97, 115, 115>>, "Class")
          [] c0 = 101 -> checkKeyword(sc, 1, <<108, 115, 101>>, "Else")
          [] c0 = 102 ->
                IF currentLexemeSize(sc) < 2 THEN "Identifier"
                ELSE CASE c1 = 97 -> checkKeyword(sc, 2, <<108, 115, 101>>, "False")
                       [] c1 = 111 -> checkKeyword(sc, 2, <<114>>, "For")
                       [] c1 = 117 -> checkKeyword(sc, 2, <<110>>, "Fun")
                       [] OTHER -> "Identifier"
          [] c0 = 105 -> checkKeyword(sc, 1, <<102>>, "If")
          [] c0 = 110 -> checkKeyword(sc, 1, <<105, 108>>, "Nil")
          [] c0 = 111 -> checkKeyword(sc, 1, <<114>>, "Or")
          [] c0 = 112 -> checkKeyword(sc, 1, <<114, 105, 110, 116>>, "Print")
          [] c0 = 114 -> checkKeyword(sc, 1, <<101, 116, 117, 114, 110>>, "Return")
          [] c0 = 115 -> checkKeyword(sc, 1, <<117, 112, 101, 114>>, "Super")
          [] c0 = 116 ->
                IF currentLexemeSize(sc) < 2 THEN "Identifier"
                ELSE CASE c1 = 104 -> checkKeyword(sc, 1, <<104, 105, 115>>, "This")
                       [] c1 = 114 -> checkKeyword(sc, 1, <<114, 117, 101>>, "True")
                       [] OTHER -> "Identifier"
          [] c0 = 119 -> checkKeyword(sc, 1, <<104, 105, 108, 101>>, "While")
          [] OTHER -> "Identifier"

RECURSIVE scanIdentifierChars(_)
scanIdentifierChars(sc) ==
    IF isAlpha(scanPeek(sc)) \/ isDigit(scanPeek(sc))
    THEN scanIdentifierChars(scanAdvance(sc)) ELSE sc

\* identifier
identifier(sc) ==
    LET s1 == scanIdentifierChars(sc)
    IN  [scanner |-> s1, token |-> makeToken(s1, identifierType(s1))]

\* The token type of a punctuation character that stands alone, or "Error"
SingleCharToken(ch) ==
    CASE ch = 40 -> "LeftParen" [] ch = 41 -> "RightParen"
      [] ch = 123 -> "LeftBrace" [] ch = 125 -> "RightBrace"
      [] ch = 44 -> "Comma" [] ch = 46 -> "Dot" [] ch = 59 -> "Semicolon"
      [] ch = 43 -> "Plus" [] ch = 45 -> "Minus" [] ch = 42 -> "Star" [] ch = 47 -> "Slash"
      [] OTHER -> "Error"

\* The token types of a character that may be followed by '='
WithEqualToken(ch) ==
    CASE ch = 33 -> <<"BangEqual", "Bang">>
      [] ch = 61 -> <<"EqualEqual", "Equal">>
      [] ch = 60 -> <<"LessEqual", "Less">>
      [] ch = 62 -> <<"GreaterEqual", "Greater">>

\* scanToken (scanner.cpp): the scanner afterwards and the token
scanNext(sc) ==
    LET s1 == skipWhitespace(sc)
        s2 == [s1 EXCEPT !.start = s1.current]
        ch == scanPeek(s2)
        s3 == scanAdvance(s2)
    IN  IF scanIsAtEnd(s2) THEN [scanner |-> s2, token |-> makeToken(s2, "Eof")]
        ELSE IF isDigit(ch) THEN scanNumber(s3)
        ELSE IF isAlpha(ch) THEN identifier(s3)
        ELSE IF ch \in {33, 61, 60, 62}
        THEN IF scanPeek(s3) = 61
             THEN [scanner |-> scanAdvance(s3),
                   token |-> makeToken(scanAdvance(s3), WithEqualToken(ch)[1])]
             ELSE [scanner |-> s3, token |-> makeToken(s3, WithEqualToken(ch)[2])]
        ELSE IF ch = 34 THEN makeString(s3)
        ELSE IF SingleCharToken(ch) # "Error"
        THEN [scanner |-> s3, token |-> makeToken(s3, SingleCharToken(ch))]
        ELSE [scanner |-> s3, token |-> errorToken(s3, "Unexpected character.")]

(***************************************************************************)
(* Parser (parser.cpp).                                                    *)
(***************************************************************************)
\* scanToken as Parser::advance calls it: the token is left in ret
scanToken(m) ==
    LET r == scanNext(m.scanner)
    IN  [m EXCEPT !.scanner = r.scanner, !.ret = r.token]

\* Parser::errorAt
errorAt(m, token, message) ==
    IF m.parser.panicMode THEN m
    ELSE [m EXCEPT !.parser.panicMode = TRUE,
                   !.parser.hadError = TRUE,
                   !.err = Append(@, [line |-> token.line, message |-> message,
                                      args |-> <<>>])]

\* Parser::errorAtCurrent
errorAtCurrent(m, message) ==
    Exec("errorAt", m, <<m.parser.current, message>>)

\* Parser::error
error(m, message) ==
    Exec("errorAt", m, <<m.parser.previous, message>>)

RECURSIVE advanceLoop(_)
advanceLoop(m) ==
    LET m1 == Exec("scanToken", m, <<>>)
        m2 == [m1 EXCEPT !.parser.current = m1.ret]
    IN  CASE m1.ended -> m1
          [] m2.ended -> m2
          [] OTHER ->
        IF m2.parser.current.type # "Error" THEN m2
        ELSE Exec("advanceLoop", Exec("errorAtCurrent", m2, <<m2.parser.current.lexeme>>), <<>>)

\* Parser::advance
advance(m) ==
    Exec("advanceLoop", [m EXCEPT !.parser.previous = m.parser.current], <<>>)

\* Parser::check
check(m, type) == m.parser.current.type = type

\* Parser::consume
consume(m, type, message) ==
    IF m.parser.current.type = type THEN Exec("advance", m, <<>>)
    ELSE Exec("errorAtCurrent", m, <<message>>)

\* Parser::match: the bool is left in ret
match(m, type) ==
    IF ~check(m, type) THEN [m EXCEPT !.ret = FALSE]
    ELSE [Exec("advance", m, <<>>) EXCEPT !.ret = TRUE]

SyncPoints == {"Class", "Fun", "Var", "For", "If", "While", "Print", "Return"}

RECURSIVE synchronizeLoop(_)
synchronizeLoop(m) ==
    IF m.parser.current.type = "Eof" THEN m
    ELSE IF m.parser.previous.type = "Semicolon" THEN m
    ELSE IF m.parser.current.type \in SyncPoints THEN m
    ELSE Exec("synchronizeLoop", Exec("advance", m, <<>>), <<>>)

\* Parser::synchronize
synchronize(m) ==
    Exec("synchronizeLoop", [m EXCEPT !.parser.panicMode = FALSE], <<>>)

(***************************************************************************)
(* Compiler (compiler.cpp).  A Compiler is a record of m.compilers and is  *)
(* named by its index c; s_active is m.active.  locals holds the entries   *)
(* of the array written so far, of which the first localCount are in use.  *)
(***************************************************************************)
PREC_NONE == 0
PREC_ASSIGNMENT == 1
PREC_OR == 2
PREC_AND == 3
PREC_EQUALITY == 4
PREC_COMPARISON == 5
PREC_TERM == 6
PREC_FACTOR == 7
PREC_UNARY == 8
PREC_CALL == 9
PREC_PRIMARY == 10

kUninitialized == -1
kUInt8Max == 255
kUInt16Max == 65535
kMaxStringSize == 4096

\* "this" and "init"
ThisChars == <<116, 104, 105, 115>>
InitChars == <<105, 110, 105, 116>>

\* static_cast<uint8_t>
ToUInt8(n) == n % kUInt8Count

\* identifiersEqual (token.cpp)
identifiersEqual(a, b) == Len(a.lexeme) = Len(b.lexeme) /\ a.lexeme = b.lexeme

\* The ObjFunction a compiler is building, and the length of its code.
CompilerFunction(m, c) == m.compilers[c].function
CodeCount(m, c) == m.heap[CompilerFunction(m, c)].chunk.code.count

\* Compiler::Compiler: the index of the new compiler is left in ret
NewCompiler(m, enclosing, type) ==
    LET c == Len(m.compilers) + 1
        m0 == IF m.active # enclosing THEN AssertFailed(m) ELSE m
        m1 == [m0 EXCEPT
                 !.compilers = Append(@,
                     [enclosing |-> enclosing, function |-> NULL, type |-> type,
                      locals |-> <<>>, localCount |-> 0, scopeDepth |-> 0,
                      upvalues |-> <<>>]),
                 !.active = c]
        m2 == Exec("allocateObj", m1, <<FunctionObj>>)
        fn == m2.ret
        m3 == [m2 EXCEPT !.compilers[c].function = fn]
        m4 == IF type # "Script"
              THEN LET n == Exec("copyString", m3, <<m3.parser.previous.lexeme>>)
                   IN  [n EXCEPT !.heap[fn].name = n.ret]
              ELSE m3
    IN  CASE m0.ended -> [m0 EXCEPT !.ret = NULL]
          [] m1.ended -> [m1 EXCEPT !.ret = NULL]
          [] m2.ended -> [m2 EXCEPT !.ret = NULL]
          [] m3.ended -> [m3 EXCEPT !.ret = NULL]
          [] m4.ended -> [m4 EXCEPT !.ret = NULL]
          [] OTHER ->
        [m4 EXCEPT
           !.compilers[c].locals =
               << [name |-> [type |-> "Eof",
                             lexeme |-> IF type # "Function" THEN ThisChars ELSE <<>>,
                             line |-> 0],
                   depth |-> 0, captured |-> FALSE] >>,
           !.compilers[c].localCount = 1,
           !.ret = c]

\* Compiler::emitByte
emitByte(m, c, byte) ==
    Exec("chunkWrite", m, <<CompilerFunction(m, c), byte, m.parser.previous.line>>)

\* Compiler::emitBytes
emitBytes(m, c, byte1, byte2) ==
    Exec("emitByte", Exec("emitByte", m, <<c, byte1>>), <<c, byte2>>)

\* Compiler::emitLoop
emitLoop(m, c, loopStart) ==
    LET m1 == Exec("emitByte", m, <<c, OP_LOOP>>)
        offset == CodeCount(m1, c) - loopStart + 2
        m2 == IF offset > kUInt16Max THEN Exec("error", m1, <<"Loop body is too large.">>) ELSE m1
        m3 == Exec("emitByte", m2, <<c, (offset \div 256) % 256>>)
    IN  CASE m1.ended -> m1
          [] m2.ended -> m2
          [] m3.ended -> m3
          [] OTHER ->
        Exec("emitByte", m3, <<c, offset % 256>>)

\* Compiler::emitJump: the offset to patch is left in ret
emitJump(m, c, byte) ==
    LET m1 == Exec("emitByte", Exec("emitByte", Exec("emitByte", m, <<c, byte>>), <<c, kUInt8Max>>), <<c, kUInt8Max>>)
    IN  [m1 EXCEPT !.ret = CodeCount(m1, c) - 2]

\* Compiler::makeConstant: the operand byte is left in ret
makeConstant(m, c, value) ==
    LET m1 == Exec("addConstant", m, <<CompilerFunction(m, c), value>>)
        constant == m1.ret
        m2 == IF constant > kUInt8Max
              THEN Exec("error", m1, <<"Too many constants in one chunk.">>) ELSE m1
    IN  CASE m1.ended -> [m1 EXCEPT !.ret = NULL]
          [] m2.ended -> [m2 EXCEPT !.ret = NULL]
          [] OTHER ->
        [m2 EXCEPT !.ret = ToUInt8(constant)]

\* Compiler::identifierConstant
identifierConstant(m, c, name) ==
    LET m1 == Exec("copyString", m, <<name.lexeme>>)
    IN  Exec("makeConstant", m1, <<c, makeObj(m1.ret)>>)

\* Compiler::emitConstant
emitConstant(m, c, value) ==
    LET m1 == Exec("makeConstant", m, <<c, value>>)
    IN  Exec("emitBytes", m1, <<c, OP_CONSTANT, m1.ret>>)

\* Compiler::patchJump
patchJump(m, c, offset) ==
    LET target == CodeCount(m, c) - offset - 2
        m1 == IF ~(target > 0) THEN AssertFailed(m) ELSE m
        fn == CompilerFunction(m1, c)
    IN  [m1 EXCEPT !.heap[fn].chunk.code.data[offset + 1] = (target \div 256) % 256,
                   !.heap[fn].chunk.code.data[offset + 2] = target % 256]

\* Compiler::emitReturn
emitReturn(m, c) ==
    IF m.compilers[c].type = "Initializer"
    THEN Exec("emitByte", Exec("emitBytes", m, <<c, OP_GET_LOCAL, 0>>), <<c, OP_RETURN>>)
    ELSE Exec("emitByte", Exec("emitByte", m, <<c, OP_NIL>>), <<c, OP_RETURN>>)

\* Compiler::end: the function is left in ret
end(m, c) ==
    LET m1 == Exec("emitReturn", m, <<c>>)
    IN  [m1 EXCEPT !.active = m1.compilers[c].enclosing,
                   !.ret = CompilerFunction(m1, c)]

RECURSIVE resolveLocalLoop(_, _, _, _)
resolveLocalLoop(m, c, name, i) ==
    IF i < 0 THEN [m EXCEPT !.ret = -1]
    ELSE LET local == m.compilers[c].locals[i + 1]
         IN  IF identifiersEqual(local.name, name)
             THEN LET m1 == IF local.depth = kUninitialized
                            THEN Exec("error", m, <<"Cannot reference a local variable in its own initializer.">>)
                            ELSE m
                  IN  [m1 EXCEPT !.ret = i]
             ELSE Exec("resolveLocalLoop", m, <<c, name, i - 1>>)

\* Compiler::resolveLocal: the index or -1 is left in ret
resolveLocal(m, c, name) ==
    Exec("resolveLocalLoop", m, <<c, name, m.compilers[c].localCount - 1>>)

\* The position of the first of upvalues[0 .. n-1] that captures the same
\* variable, or -1.
RECURSIVE findUpvalue(_, _, _, _, _)
findUpvalue(upvalues, n, index, isLocal, i) ==
    IF i >= n THEN -1
    ELSE IF upvalues[i + 1].index = index /\ upvalues[i + 1].isLocal = isLocal THEN i
    ELSE findUpvalue(upvalues, n, index, isLocal, i + 1)

\* What addUpvalue returns when upvalues[i] already captures the variable.
addUpvalueFound(upvalues, i) == upvalues[i + 1].index

\* Compiler::addUpvalue: the result is left in ret
addUpvalue(m, c, index, isLocal) ==
    LET fn == CompilerFunction(m, c)
        upvalueCount == m.heap[fn].upvalueCount
        upvalues == m.compilers[c].upvalues
        found == findUpvalue(upvalues, upvalueCount, index, isLocal, 0)
    IN  IF found # -1 THEN [m EXCEPT !.ret = addUpvalueFound(upvalues, found)]
        ELSE IF upvalueCount = kUInt8Count
        THEN [Exec("error", m, <<"Too many closure variables in function.">>) EXCEPT !.ret = 0]
        ELSE [m EXCEPT !.compilers[c].upvalues =
                           Append(@, [index |-> index, isLocal |-> isLocal]),
                       !.heap[fn].upvalueCount = @ + 1,
                       !.ret = upvalueCount]

\* Compiler::resolveUpvalue: the result is left in ret
RECURSIVE resolveUpvalue(_, _, _)
resolveUpvalue(m, c, name) ==
    LET enclosing == m.compilers[c].enclosing
    IN  IF enclosing = NULL THEN [m EXCEPT !.ret = -1]
        ELSE LET m1 == Exec("resolveLocal", m, <<enclosing, name>>)
                 local == m1.ret
             IN  IF local # -1
                 THEN Exec("addUpvalue", [m1 EXCEPT !.compilers[enclosing].locals[local + 1].captured = TRUE], <<c, ToUInt8(local), TRUE>>)
                 ELSE LET m2 == Exec("resolveUpvalue", m1, <<enclosing, name>>)
                          upvalue == m2.ret
                      IN  IF upvalue # -1
                          THEN Exec("addUpvalue", m2, <<c, ToUInt8(upvalue), FALSE>>)
                          ELSE [m2 EXCEPT !.ret = -1]

\* Compiler::beginScope
beginScope(m, c) ==
    [m EXCEPT !.compilers[c].scopeDepth = @ + 1]

RECURSIVE endScopeLoop(_, _)
endScopeLoop(m, c) ==
    LET cc == m.compilers[c]
    IN  IF cc.localCount > 0 /\ cc.locals[cc.localCount].depth > cc.scopeDepth
        THEN LET m1 == IF cc.locals[cc.localCount].captured
                       THEN Exec("emitByte", m, <<c, OP_CLOSE_UPVALUE>>)
                       ELSE Exec("emitByte", m, <<c, OP_POP>>)
             IN  Exec("endScopeLoop", [m1 EXCEPT !.compilers[c].localCount = @ - 1], <<c>>)
        ELSE m

\* Compiler::endScope
endScope(m, c) ==
    Exec("endScopeLoop", [m EXCEPT !.compilers[c].scopeDepth = @ - 1], <<c>>)

\* Compiler::addLocal: the entry keeps the captured flag it had before
addLocal(m, c, name) ==
    LET cc == m.compilers[c]
    IN  IF cc.localCount = kUInt8Count
        THEN Exec("error", m, <<"Too many local variables in function.">>)
        ELSE [m EXCEPT
                !.compilers[c].locals =
                    IF cc.localCount < Len(cc.locals)
                    THEN [@ EXCEPT ![cc.localCount + 1].name = name,
                                   ![cc.localCount + 1].depth = kUninitialized]
                    ELSE Append(@, [name |-> name, depth |-> kUninitialized,
                                    captured |-> FALSE]),
                !.compilers[c].localCount = @ + 1]

RECURSIVE declareVariableLoop(_, _, _, _)
declareVariableLoop(m, c, name, i) ==
    IF i < 0 THEN m
    ELSE LET local == m.compilers[c].locals[i + 1]
         IN  IF local.depth # kUninitialized /\ local.depth < m.compilers[c].scopeDepth
             THEN m
             ELSE Exec("declareVariableLoop", IF identifiersEqual(local.name, name)
                      THEN Exec("error", m, <<"Variable with duplicate name">>) ELSE m, <<c, name, i - 1>>)

\* Compiler::declareVariable
declareVariable(m, c) ==
    IF m.compilers[c].scopeDepth = 0 THEN m
    ELSE LET name == m.parser.previous
         IN  Exec("addLocal", Exec("declareVariableLoop", m, <<c, name, m.compilers[c].localCount - 1>>), <<c, name>>)

\* Compiler::parseVariable: the constant index (0 for a local) is left in ret
parseVariable(m, c, errorMessage) ==
    LET m1 == Exec("declareVariable", Exec("consume", m, <<"Identifier", errorMessage>>), <<c>>)
    IN  IF m1.compilers[c].scopeDepth > 0 THEN [m1 EXCEPT !.ret = 0]
        ELSE Exec("identifierConstant", m1, <<c, m1.parser.previous>>)

\* Compiler::markInitialized
markInitialized(m, c) ==
    LET cc == m.compilers[c]
    IN  IF cc.scopeDepth = 0 THEN m
        ELSE [m EXCEPT !.compilers[c].locals[cc.localCount].depth = cc.scopeDepth]

\* Compiler::defineVariable
defineVariable(m, c, global) ==
    IF m.compilers[c].scopeDepth > 0 THEN Exec("markInitialized", m, <<c>>)
    ELSE Exec("emitBytes", m, <<c, OP_DEFINE_GLOBAL, global>>)

\* The rules table of the Pratt parser: getRule
getRule(type) ==
    CASE type = "LeftParen" -> [prefix |-> "grouping", infix |-> "call_", precedence |-> PREC_CALL]
      [] type = "Dot" -> [prefix |-> "none", infix |-> "dot", precedence |-> PREC_CALL]
      [] type = "Plus" -> [prefix |-> "none", infix |-> "binary", precedence |-> PREC_TERM]
      [] type = "Minus" -> [prefix |-> "unary", infix |-> "binary", precedence |-> PREC_TERM]
      [] type \in {"Star", "Slash"} ->
            [prefix |-> "none", infix |-> "binary", precedence |-> PREC_FACTOR]
      [] type = "Bang" -> [prefix |-> "unary", infix |-> "none", precedence |-> PREC_NONE]
      [] type \in {"BangEqual", "EqualEqual"} ->
            [prefix |-> "none", infix |-> "binary", precedence |-> PREC_EQUALITY]
      [] type \in {"Less", "LessEqual", "Greater", "GreaterEqual"} ->
            [prefix |-> "none", infix |-> "binary", precedence |-> PREC_COMPARISON]
      [] type = "Identifier" -> [prefix |-> "variable", infix |-> "none", precedence |-> PREC_NONE]
      [] type = "String" -> [prefix |-> "string", infix |-> "none", precedence |-> PREC_NONE]
      [] type = "Number" -> [prefix |-> "number", infix |-> "none", precedence |-> PREC_NONE]
      [] type = "And" -> [prefix |-> "none", infix |-> "andOperator", precedence |-> PREC_AND]
      [] type = "Or" -> [prefix |-> "none", infix |-> "orOperator", precedence |-> PREC_OR]
      [] type = "This" -> [prefix |-> "this_", infix |-> "none", precedence |-> PREC_NONE]
      [] type \in {"Nil", "True", "False"} ->
            [prefix |-> "literal", infix |-> "none", precedence |-> PREC_NONE]
      [] OTHER -> [prefix |-> "none", infix |-> "none", precedence |-> PREC_NONE]

\* The value std::from_chars reads from the digits of a lexeme before its
\* decimal point (the numerals of the programs below have no fraction digits).
RECURSIVE parseDigits(_, _, _)
parseDigits(chars, i, acc) ==
    IF i > Len(chars) \/ chars[i] = 46 THEN acc
    ELSE parseDigits(chars, i + 1, acc * 10 + (chars[i] - 48))

RECURSIVE declaration(_, _)
RECURSIVE statement(_, _)
RECURSIVE block(_, _)
RECURSIVE expression(_, _)
RECURSIVE parsePrecedence(_, _, _)
RECURSIVE defineFunction(_, _, _)
RECURSIVE namedVariable(_, _, _, _)

\* Compiler::namedVariable
namedVariable(m, c, name, canAssign) ==
    LET m1 == Exec("resolveLocal", m, <<c, name>>)
        m2 == IF m1.ret # -1 THEN m1 ELSE Exec("resolveUpvalue", m1, <<c, name>>)
        m3 == IF m1.ret # -1 \/ m2.ret # -1 THEN m2 ELSE Exec("identifierConstant", m2, <<c, name>>)
        arg == m3.ret
        getOp == IF m1.ret # -1 THEN OP_GET_LOCAL
                 ELSE IF m2.ret # -1 THEN OP_GET_UPVALUE ELSE OP_GET_GLOBAL
        setOp == IF m1.ret # -1 THEN OP_SET_LOCAL
                 ELSE IF m2.ret # -1 THEN OP_SET_UPVALUE ELSE OP_SET_GLOBAL
        m4 == IF ~(arg >= 0 /\ arg <= kUInt8Max) THEN AssertFailed(m3) ELSE m3
        m5 == IF canAssign THEN Exec("match", m4, <<"Equal">>) ELSE [m4 EXCEPT !.ret = FALSE]
    IN  CASE m1.ended -> m1
          [] m2.ended -> m2
          [] m3.ended -> m3
          [] m4.ended -> m4
          [] m5.ended -> m5
          [] OTHER ->
        IF m5.ret
        THEN Exec("emitBytes", Exec("expression", m5, <<c>>), <<c, setOp, ToUInt8(arg)>>)
        ELSE Exec("emitBytes", m5, <<c, getOp, ToUInt8(arg)>>)

\* The do-while loop of argumentList
RECURSIVE argumentListLoop(_, _, _)
argumentListLoop(m, c, argCount) ==
    LET m1 == Exec("expression", m, <<c>>)
        m2 == IF argCount = kUInt8Max
              THEN Exec("error", m1, <<"Can't have more than 255 arguments.">>) ELSE m1
        m3 == Exec("match", m2, <<"Comma">>)
    IN  CASE m1.ended -> [m1 EXCEPT !.ret = NULL]
          [] m2.ended -> [m2 EXCEPT !.ret = NULL]
          [] m3.ended -> [m3 EXCEPT !.ret = NULL]
          [] OTHER ->
        IF m3.ret THEN Exec("argumentListLoop", m3, <<c, ToUInt8(argCount + 1)>>)
        ELSE [m3 EXCEPT !.ret = ToUInt8(argCount + 1)]

\* argumentList: the number of arguments is left in ret
argumentList(m, c) ==
    LET m1 == IF ~check(m, "RightParen") THEN Exec("argumentListLoop", m, <<c, 0>>)
              ELSE [m EXCEPT !.ret = 0]
        argCount == m1.ret
    IN  [Exec("consume", m1, <<"RightParen", "Expected ')' after argument list.">>)
            EXCEPT !.ret = argCount]

\* andOperator
andOperator(m, c, canAssign) ==
    LET m1 == Exec("emitJump", m, <<c, OP_JUMP_IF_FALSE>>)
        endJump == m1.ret
    IN  Exec("patchJump", Exec("parsePrecedence", Exec("emitByte", m1, <<c, OP_POP>>), <<c, PREC_AND>>), <<c, endJump>>)

\* orOperator
orOperator(m, c, canAssign) ==
    LET m1 == Exec("emitJump", m, <<c, OP_JUMP_IF_FALSE>>)
        elseJump == m1.ret
        m2 == Exec("emitJump", m1, <<c, OP_JUMP>>)
        endJump == m2.ret
        m3 == Exec("emitByte", Exec("patchJump", m2, <<c, elseJump>>), <<c, OP_POP>>)
    IN  CASE m1.ended -> m1
          [] m2.ended -> m2
          [] m3.ended -> m3
          [] OTHER ->
        Exec("patchJump", Exec("parsePrecedence", m3, <<c, PREC_OR>>), <<c, endJump>>)

\* dot
dot(m, c, canAssign) ==
    LET m1 == Exec("consume", m, <<"Identifier", "Expected an identifier after '.'">>)
        m2 == Exec("identifierConstant", m1, <<c, m1.parser.previous>>)
        name == m2.ret
        m3 == IF canAssign THEN Exec("match", m2, <<"Equal">>) ELSE [m2 EXCEPT !.ret = FALSE]
    IN  CASE m1.ended -> m1
          [] m2.ended -> m2
          [] m3.ended -> m3
          [] OTHER ->
        IF m3.ret
        THEN Exec("emitBytes", Exec("expression", m3, <<c>>), <<c, OP_SET_PROPERTY, name>>)
        ELSE LET m4 == Exec("match", m3, <<"LeftParen">>)
             IN  IF m4.ret
                 THEN LET m5 == Exec("argumentList", m4, <<c>>)
                      IN  Exec("emitByte", Exec("emitBytes", m5, <<c, OP_INVOKE, name>>), <<c, m5.ret>>)
                 ELSE Exec("emitBytes", m4, <<c, OP_GET_PROPERTY, name>>)

\* binary
binary(m, c, canAssign) ==
    LET operatorType == m.parser.previous.type
        rule == getRule(operatorType)
        m1 == Exec("parsePrecedence", m, <<c, rule.precedence + 1>>)
    IN  CASE m1.ended -> m1
          [] operatorType = "Plus" -> Exec("emitByte", m1, <<c, OP_ADD>>)
          [] operatorType = "Minus" -> Exec("emitByte", m1, <<c, OP_SUBTRACT>>)
          [] operatorType = "Star" -> Exec("emitByte", m1, <<c, OP_MULTIPLY>>)
          [] operatorType = "Slash" -> Exec("emitByte", m1, <<c, OP_DIVIDE>>)
          [] operatorType = "EqualEqual" -> Exec("emitByte", m1, <<c, OP_EQUAL>>)
          [] operatorType = "BangEqual" -> Exec("emitBytes", m1, <<c, OP_EQUAL, OP_NOT>>)
          [] operatorType = "Less" -> Exec("emitByte", m1, <<c, OP_LESS>>)
          [] operatorType = "LessEqual" -> Exec("emitBytes", m1, <<c, OP_GREATER, OP_NOT>>)
          [] operatorType = "Greater" -> Exec("emitByte", m1, <<c, OP_GREATER>>)
          [] operatorType = "GreaterEqual" -> Exec("emitBytes", m1, <<c, OP_LESS, OP_NOT>>)
          [] OTHER -> AssertFailed(m1)

\* call
call_(m, c, canAssign) ==
    LET m1 == Exec("argumentList", m, <<c>>)
    IN  Exec("emitBytes", m1, <<c, OP_CALL, m1.ret>>)

\* grouping
grouping(m, c, canAssign) ==
    Exec("consume", Exec("expression", m, <<c>>), <<"RightParen", "Expected ')' after expression.">>)

\* unary
unary(m, c, canAssign) ==
    LET operatorType == m.parser.previous.type
        m1 == Exec("parsePrecedence", m, <<c, PREC_UNARY>>)
    IN  CASE operatorType = "Minus" -> Exec("emitByte", m1, <<c, OP_NEGATE>>)
          [] operatorType = "Bang" -> Exec("emitByte", m1, <<c, OP_NOT>>)
          [] OTHER -> Fault(m1, "abort")

\* number
number(m, c, canAssign) ==
    Exec("emitConstant", m, <<c, makeNumber(parseDigits(m.parser.previous.lexeme, 1, 0))>>)

\* string
string(m, c, canAssign) ==
    LET previous == m.parser.previous.lexeme
        withoutQuotes == SubSeq(previous, 2, Len(previous) - 1)
    IN  IF Len(withoutQuotes) > kMaxStringSize
        THEN Exec("error", m, <<"String exceeds length limits.">>)
        ELSE LET m1 == Exec("copyString", m, <<withoutQuotes>>)
             IN  Exec("emitConstant", m1, <<c, makeObj(m1.ret)>>)

\* variable
variable(m, c, canAssign) ==
    Exec("namedVariable", m, <<c, m.parser.previous, canAssign>>)

\* this_
this_(m, c, canAssign) ==
    IF m.classCompiler = NULL
    THEN Exec("error", m, <<"Can't use 'this' outside of a class.">>)
    ELSE Exec("variable", m, <<c, canAssign>>)

\* literal
literal(m, c, canAssign) ==
    CASE m.parser.previous.type = "Nil" -> Exec("emitByte", m, <<c, OP_NIL>>)
      [] m.parser.previous.type = "True" -> Exec("emitByte", m, <<c, OP_TRUE>>)
      [] m.parser.previous.type = "False" -> Exec("emitByte", m, <<c, OP_FALSE>>)
      [] OTHER -> Fault(m, "abort")

\* The while loop of parsePrecedence over the infix operators
RECURSIVE parseInfix(_, _, _, _)
parseInfix(m, c, precedence, canAssign) ==
    IF precedence <= getRule(m.parser.current.type).precedence
    THEN LET m1 == Exec("advance", m, <<>>)
         IN  Exec("parseInfix", Exec(getRule(m1.parser.previous.type).infix, m1, <<c, canAssign>>), <<c, precedence, canAssign>>)
    ELSE m

\* parsePrecedence
parsePrecedence(m, c, precedence) ==
    LET m1 == Exec("advance", m, <<>>)
        prefixRule == getRule(m1.parser.previous.type).prefix
        canAssign == precedence <= PREC_ASSIGNMENT
        m2 == Exec(prefixRule, m1, <<c, canAssign>>)
        m3 == Exec("parseInfix", m2, <<c, precedence, canAssign>>)
        m4 == IF canAssign THEN Exec("match", m3, <<"Equal">>) ELSE [m3 EXCEPT !.ret = FALSE]
    IN  CASE prefixRule = "none" -> Exec("error", m1, <<"Expected an expression.">>)
          [] m2.ended -> m2
          [] m3.ended -> m3
          [] m4.ended -> m4
          [] OTHER ->
        IF m4.ret THEN Exec("error", m4, <<"Invalid assignment target.">>) ELSE m4

\* Compiler::expression
expression(m, c) ==
    Exec("parsePrecedence", m, <<c, PREC_ASSIGNMENT>>)

\* The messages of the compiler are those of the source, with an apostrophe
\* where the source has a grave accent (a TLA+ string cannot hold one).

\* Compiler::printStatement
printStatement(m, c) ==
    LET m1 == Exec("expression", m, <<c>>)
    IN  CASE m1.ended -> m1
          [] OTHER ->
        Exec("emitByte", Exec("consume", m1, <<"Semicolon", "Expected a ';' after print statement.">>), <<c, OP_PRINT>>)

\* Compiler::expressionStatement
expressionStatement(m, c) ==
    LET m1 == Exec("expression", m, <<c>>)
    IN  CASE m1.ended -> m1
          [] OTHER ->
        Exec("emitByte", Exec("consume", m1, <<"Semicolon", "Expected a ';' after expression.">>), <<c, OP_POP>>)

\* Compiler::varDeclaration
varDeclaration(m, c) ==
    LET m1 == Exec("parseVariable", m, <<c, "Expected a variable name.">>)
        global == m1.ret
        m2 == Exec("match", m1, <<"Equal">>)
        m3 == IF m2.ret THEN Exec("expression", m2, <<c>>) ELSE Exec("emitByte", m2, <<c, OP_NIL>>)
    IN  CASE m1.ended -> m1
          [] m2.ended -> m2
          [] m3.ended -> m3
          [] OTHER ->
        Exec("defineVariable", Exec("consume", m3, <<"Semicolon", "Expected a ';' after a variable declaration.">>), <<c, global>>)

\* Compiler::functionDeclaration
functionDeclaration(m, c) ==
    LET m1 == Exec("parseVariable", m, <<c, "Expected a function name.">>)
        global == m1.ret
        m2 == Exec("defineFunction", Exec("markInitialized", m1, <<c>>), <<c, "Function">>)
    IN  CASE m2.ended -> m2
          [] OTHER ->
        Exec("defineVariable", m2, <<c, global>>)

\* The do-while loop of defineFunction over the parameters of compiler n
RECURSIVE parameterLoop(_, _)
parameterLoop(m, n) ==
    LET fn == CompilerFunction(m, n)
        m1 == [m EXCEPT !.heap[fn].arity = @ + 1]
        m2 == IF m1.heap[fn].arity > kUInt8Max
              THEN Exec("errorAtCurrent", m1, <<"Can't have more than 255 parameters.">>) ELSE m1
        m3 == Exec("parseVariable", m2, <<n, "Expected parameter name.">>)
        m4 == Exec("match", Exec("defineVariable", m3, <<n, m3.ret>>), <<"Comma">>)
    IN  CASE m1.ended -> m1
          [] m2.ended -> m2
          [] m3.ended -> m3
          [] m4.ended -> m4
          [] OTHER ->
        IF m4.ret THEN Exec("parameterLoop", m4, <<n>>) ELSE m4

\* The loop of defineFunction that emits the (isLocal, index) pairs
RECURSIVE emitUpvalues(_, _, _, _, _)
emitUpvalues(m, c, upvalues, upvalueCount, i) ==
    IF i >= upvalueCount THEN m
    ELSE Exec("emitUpvalues", Exec("emitByte", Exec("emitByte", m, <<c, IF upvalues[i + 1].isLocal THEN 1 ELSE 0>>), <<c, upvalues[i + 1].index>>), <<c, upvalues, upvalueCount, i + 1>>)

\* Compiler::defineFunction
defineFunction(m, c, fnType) ==
    LET m1 == Exec("NewCompiler", m, <<c, fnType>>)
        n == m1.ret
        m2 == Exec("consume", Exec("beginScope", m1, <<n>>), <<"LeftParen", "Expected '(' after function name.">>)
        m3 == IF ~check(m2, "RightParen") THEN Exec("parameterLoop", m2, <<n>>) ELSE m2
        m4 == Exec("consume", m3, <<"RightParen", "Expected ')' after function parameters.">>)
        m5 == Exec("consume", m4, <<"LeftBrace", "Expected '{' after function parameter list.">>)
        body == Exec("block", m5, <<n>>)
        m6 == Exec("end", body, <<n>>)
        fn == m6.ret
        m7 == Exec("makeConstant", m6, <<c, makeObj(fn)>>)
        m8 == Exec("emitBytes", m7, <<c, OP_CLOSURE, m7.ret>>)
        m9 == Deref(m8, fn)
        m10 == Exec("emitUpvalues", m9, <<c, m9.compilers[n].upvalues, m9.heap[fn].upvalueCount, 0>>)
    IN  CASE m1.ended -> m1
          [] m2.ended -> m2
          [] m3.ended -> m3
          [] m4.ended -> m4
          [] m5.ended -> m5
          [] body.ended -> body
          [] m6.ended -> m6
          [] m7.ended -> m7
          [] m8.ended -> m8
          [] m9.ended -> m9
          [] m10.ended -> m10
          [] OTHER ->
        [m10 EXCEPT !.compilers = SubSeq(@, 1, n - 1)]

\* Compiler::method
method(m, c) ==
    LET m1 == Exec("consume", m, <<"Identifier", "Expected a method name.">>)
        m2 == Exec("identifierConstant", m1, <<c, m1.parser.previous>>)
        methodName == m2.ret
        fnType == IF Len(m2.parser.previous.lexeme) = 4 /\ m2.parser.previous.lexeme = InitChars
                  THEN "Initializer" ELSE "Method"
    IN  CASE m1.ended -> m1
          [] m2.ended -> m2
          [] OTHER ->
        Exec("emitBytes", Exec("defineFunction", m2, <<c, fnType>>), <<c, OP_METHOD, methodName>>)

\* The loop of classDeclaration over the methods
RECURSIVE methodLoop(_, _)
methodLoop(m, c) ==
    IF ~check(m, "RightBrace") /\ ~check(m, "Eof") THEN Exec("methodLoop", Exec("method", m, <<c>>), <<c>>)
    ELSE m

\* Compiler::classDeclaration.  A ClassCompiler is a record of
\* m.classCompilers; it is a local variable of this function and dead
\* once the function has returned.
classDeclaration(m, c) ==
    LET m1 == Exec("consume", m, <<"Identifier", "Expected a class name.">>)
        m2 == Exec("identifierConstant", m1, <<c, m1.parser.previous>>)
        nameConstant == m2.ret
        className == m2.parser.previous
        m3 == Exec("defineVariable", Exec("emitBytes", Exec("declareVariable", m2, <<c>>), <<c, OP_CLASS, nameConstant>>), <<c, nameConstant>>)
        k == Len(m3.classCompilers) + 1
        m4 == [m3 EXCEPT !.classCompilers = Append(@, [enclosing |-> NULL, alive |-> TRUE])]
        m5 == IF m4.classCompiler # NULL
              THEN [(IF m4.classCompilers[m4.classCompiler].alive
                     THEN m4 ELSE Fault(m4, "undefined"))
                       EXCEPT !.classCompilers[m4.classCompiler].enclosing = k]
              ELSE [m4 EXCEPT !.classCompiler = k]
        body(m7) ==
            LET m8 == Exec("consume", Exec("namedVariable", m7, <<c, className, FALSE>>), <<"LeftBrace", "Expected an opening brace.">>)
                m9 == Exec("consume", Exec("methodLoop", m8, <<c>>), <<"RightBrace", "Expected a closing brace.">>)
                m10 == Exec("emitByte", m9, <<c, OP_POP>>)
                m11 == IF m10.classCompilers[m10.classCompiler].alive
                       THEN m10 ELSE Fault(m10, "undefined")
            IN  CASE m7.ended -> m7
                  [] m8.ended -> m8
                  [] m9.ended -> m9
                  [] m10.ended -> m10
                  [] m11.ended -> m11
                  [] OTHER ->
                [m11 EXCEPT !.classCompiler = m11.classCompilers[m11.classCompiler].enclosing,
                            !.classCompilers[k].alive = FALSE]
        superclass(m6) ==
            CASE m6.ended -> m6
              [] OTHER ->
            body(IF m6.ret
                 THEN LET i1 == Exec("consume", m6, <<"Identifier", "Expected a superclass name.">>)
                          i2 == Exec("namedVariable", i1, <<c, i1.parser.previous, FALSE>>)
                          i3 == IF identifiersEqual(i2.parser.previous, className)
                                THEN Exec("error", i2, <<"A class cannot inherit from itself {} < {}">>)
                                ELSE i2
                      IN  CASE i1.ended -> i1
                            [] i2.ended -> i2
                            [] i3.ended -> i3
                            [] OTHER ->
                          Exec("emitByte", Exec("namedVariable", i3, <<c, className, FALSE>>), <<c, OP_INHERIT>>)
                 ELSE m6)
    IN  CASE m1.ended -> m1
          [] m2.ended -> m2
          [] m3.ended -> m3
          [] m4.ended -> m4
          [] m5.ended -> m5
          [] OTHER ->
        superclass(Exec("match", m5, <<"Less">>))

\* Compiler::ifStatement
ifStatement(m, c) ==
    LET m1 == Exec("consume", m, <<"LeftParen", "Expected a '(' after 'if'.">>)
        m2 == Exec("consume", Exec("expression", m1, <<c>>), <<"RightParen", "Expected a ')' after 'if' condition.">>)
        m3 == Exec("emitJump", m2, <<c, OP_JUMP_IF_FALSE>>)
        thenJump == m3.ret
        m4 == Exec("emitJump", Exec("statement", Exec("emitByte", m3, <<c, OP_POP>>), <<c>>), <<c, OP_JUMP>>)
        elseJump == m4.ret
        m5 == Exec("match", Exec("emitByte", Exec("patchJump", m4, <<c, thenJump>>), <<c, OP_POP>>), <<"Else">>)
        m6 == IF m5.ret THEN Exec("statement", m5, <<c>>) ELSE m5
    IN  CASE m1.ended -> m1
          [] m2.ended -> m2
          [] m3.ended -> m3
          [] m4.ended -> m4
          [] m5.ended -> m5
          [] m6.ended -> m6
          [] OTHER ->
        Exec("patchJump", m6, <<c, elseJump>>)

\* Compiler::returnStatement
returnStatement(m, c) ==
    LET m1 == IF m.compilers[c].type = "Script"
              THEN Exec("error", m, <<"Cannot return from top-level code.">>)
              ELSE IF m.compilers[c].type = "Initializer"
              THEN Exec("error", m, <<"Cannot return from an initializer.">>)
              ELSE m
        m2 == Exec("match", m1, <<"Semicolon">>)
    IN  CASE m1.ended -> m1
          [] m2.ended -> m2
          [] OTHER ->
        IF m2.ret THEN Exec("emitReturn", m2, <<c>>)
        ELSE Exec("emitByte", Exec("consume", Exec("expression", m2, <<c>>), <<"Semicolon", "Expected ';' after return expression.">>), <<c, OP_RETURN>>)

\* Compiler::whileStatement
whileStatement(m, c) ==
    LET loopStart == CodeCount(m, c)
        m1 == Exec("consume", m, <<"LeftParen", "Expected '(' after while.">>)
        m2 == Exec("consume", Exec("expression", m1, <<c>>), <<"RightParen", "Expected ')' after while condition.">>)
        m3 == Exec("emitJump", m2, <<c, OP_JUMP_IF_FALSE>>)
        exitJump == m3.ret
        m4 == Exec("emitLoop", Exec("statement", Exec("emitByte", m3, <<c, OP_POP>>), <<c>>), <<c, loopStart>>)
    IN  CASE m1.ended -> m1
          [] m2.ended -> m2
          [] m3.ended -> m3
          [] m4.ended -> m4
          [] OTHER ->
        Exec("emitByte", Exec("patchJump", m4, <<c, exitJump>>), <<c, OP_POP>>)

\* Compiler::forStatement
forStatement(m, c) ==
    LET m1 == Exec("consume", Exec("beginScope", m, <<c>>), <<"LeftParen", "Expected '(' after 'for'.">>)
        m2 == Exec("match", m1, <<"Var">>)
        m3 == IF m2.ret THEN Exec("varDeclaration", m2, <<c>>)
              ELSE LET s1 == Exec("match", m2, <<"Semicolon">>)
                   IN  IF s1.ret THEN s1 ELSE Exec("expressionStatement", s1, <<c>>)
        loopStart == CodeCount(m3, c)
        m4 == Exec("match", m3, <<"Semicolon">>)
        m5 == IF ~m4.ret
              THEN LET e1 == Exec("emitJump", Exec("consume", Exec("expression", m4, <<c>>), <<"Semicolon", "Expected ';' after condition.">>), <<c, OP_JUMP_IF_FALSE>>)
                   IN  [Exec("emitByte", e1, <<c, OP_POP>>) EXCEPT !.ret = e1.ret]
              ELSE [m4 EXCEPT !.ret = -1]
        exitJump == m5.ret
        m6 == Exec("match", m5, <<"RightParen">>)
        m7 == IF ~m6.ret
              THEN LET b1 == Exec("emitJump", m6, <<c, OP_JUMP>>)
                       bodyJump == b1.ret
                       increment == CodeCount(b1, c)
                       b2 == Exec("consume", Exec("emitByte", Exec("expression", b1, <<c>>), <<c, OP_POP>>), <<"RightParen", "Expected ')' after 'for' clauses.">>)
                   IN  [Exec("patchJump", Exec("emitLoop", b2, <<c, loopStart>>), <<c, bodyJump>>)
                           EXCEPT !.ret = increment]
              ELSE [m6 EXCEPT !.ret = loopStart]
        m8 == Exec("emitLoop", Exec("statement", m7, <<c>>), <<c, m7.ret>>)
        m9 == IF exitJump # -1 THEN Exec("emitByte", Exec("patchJump", m8, <<c, exitJump>>), <<c, OP_POP>>) ELSE m8
    IN  CASE m1.ended -> m1
          [] m2.ended -> m2
          [] m3.ended -> m3
          [] m4.ended -> m4
          [] m5.ended -> m5
          [] m6.ended -> m6
          [] m7.ended -> m7
          [] m8.ended -> m8
          [] m9.ended -> m9
          [] OTHER ->
        Exec("endScope", m9, <<c>>)

\* Compiler::statement
statement(m, c) ==
    LET type == m.parser.current.type
    IN  CASE type = "Print" -> Exec("printStatement", Exec("advance", m, <<>>), <<c>>)
          [] type = "For" -> Exec("forStatement", Exec("advance", m, <<>>), <<c>>)
          [] type = "If" -> Exec("ifStatement", Exec("advance", m, <<>>), <<c>>)
          [] type = "Return" -> Exec("returnStatement", Exec("advance", m, <<>>), <<c>>)
          [] type = "While" -> Exec("whileStatement", Exec("advance", m, <<>>), <<c>>)
          [] type = "LeftBrace" -> Exec("endScope", Exec("block", Exec("beginScope", Exec("advance", m, <<>>), <<c>>), <<c>>), <<c>>)
          [] OTHER -> Exec("expressionStatement", m, <<c>>)

\* Compiler::block
block(m, c) ==
    IF ~check(m, "Eof") /\ ~check(m, "RightBrace") THEN Exec("block", Exec("declaration", m, <<c>>), <<c>>)
    ELSE Exec("consume", m, <<"RightBrace", "Expected '}' to terminate block.">>)

\* Compiler::declaration
declaration(m, c) ==
    LET type == m.parser.current.type
        m1 == CASE type = "Class" -> Exec("classDeclaration", Exec("advance", m, <<>>), <<c>>)
                [] type = "Fun" -> Exec("functionDeclaration", Exec("advance", m, <<>>), <<c>>)
                [] type = "Var" -> Exec("varDeclaration", Exec("advance", m, <<>>), <<c>>)
                [] OTHER -> Exec("statement", m, <<c>>)
    IN  CASE m1.ended -> m1
          [] m1.parser.panicMode -> Exec("synchronize", m1, <<>>)
          [] OTHER -> m1

\* The loop of compile over the declarations of the script
RECURSIVE compileLoop(_, _)
compileLoop(m, c) ==
    LET m1 == Exec("match", m, <<"Eof">>)
    IN  IF m1.ret THEN m1 ELSE Exec("compileLoop", Exec("declaration", m1, <<c>>), <<c>>)

\* compile, were it to return the function also after an error
compileIgnoringErrors(m, source) ==
    LET m1 == Exec("NewCompiler", [m EXCEPT !.parser = NoParser, !.scanner = initScanner(source)], <<NULL, "Script">>)
        c == m1.ret
        m2 == Exec("compileLoop", Exec("advance", m1, <<>>), <<c>>)
        m3 == Exec("end", Exec("consume", m2, <<"Eof", "Expected end of expression.">>), <<c>>)
    IN  CASE m1.ended -> m1
          [] m2.ended -> m2
          [] m3.ended -> m3
          [] OTHER -> [m3 EXCEPT !.parser = NoParser, !.compilers = <<>>]

\* compile: the function, or NULL after an error, is left in ret
compile(m, source) ==
    LET m1 == Exec("NewCompiler", [m EXCEPT !.parser = NoParser, !.scanner = initScanner(source)], <<NULL, "Script">>)
        c == m1.ret
        m2 == Exec("compileLoop", Exec("advance", m1, <<>>), <<c>>)
        m3 == Exec("end", Exec("consume", m2, <<"Eof", "Expected end of expression.">>), <<c>>)
        function == m3.ret
    IN  CASE m1.ended -> m1
          [] m2.ended -> m2
          [] m3.ended -> m3
          [] OTHER ->
        [m3 EXCEPT !.ret = IF m3.parser.hadError THEN NULL ELSE function,
                   !.parser = NoParser,
                   !.compilers = <<>>]

(***************************************************************************)
(* Virtual machine (vm.cpp).  A CallFrame is a record of the closure, ip   *)
(* as an offset into the code of its function, and slots as an index of    *)
(* the value stack.  frames holds the entries of the array written so far, *)
(* of which the first frameCount are in use.  A message built by           *)
(* std::format is recorded as its format string and its arguments.         *)
(***************************************************************************)
\* What a read outside an array yields when the process runs on.
UnspecifiedLine == -1

\* VM::currentFrame
currentFrame(m) == m.frames[m.frameCount]

\* The ObjFunction of a frame
FrameFunction(m, frame) == m.heap[frame.closure].function

\* The index into lines that runtimeError computes for a frame:
\* std::distance(frame->ip, &code[0]) - 1
traceInstruction(frame) == (0 - frame.ip) - 1

\* Is that index inside lines (the CL_ASSERT of Vector::operator[])
traceInBounds(m, frame) ==
    /\ traceInstruction(frame) >= 0
    /\ traceInstruction(frame) < m.heap[FrameFunction(m, frame)].chunk.lines.count

\* The line of the stack trace for a frame
traceLine(m, frame) ==
    [line |-> IF traceInBounds(m, frame)
              THEN m.heap[FrameFunction(m, frame)].chunk.lines.data[traceInstruction(frame) + 1]
              ELSE UnspecifiedLine,
     function |-> FrameFunction(m, frame)]

\* The stack trace of runtimeError from frame i down to frame 0: the loop
\* stops at the first frame whose index is outside lines when the read ends
\* the process, and goes on with an unspecified line otherwise.
runtimeErrorTrace(m, i) ==
    LET outside == {f \in 1 .. i + 1 : ~traceInBounds(m, m.frames[f])}
        stop == IF outside = {} THEN 0
                ELSE CHOOSE f \in outside : \A g \in outside : g <= f
        upTo(last) == [j \in 1 .. i + 1 - last |-> traceLine(m, m.frames[i + 2 - j])]
    IN  IF outside = {} THEN [m EXCEPT !.trace = @ \o upTo(0)]
        ELSE IF m.debug THEN AssertFailed([m EXCEPT !.trace = @ \o upTo(stop)])
        ELSE IF m.ubTraps THEN UndefinedAccess([m EXCEPT !.trace = @ \o upTo(stop)])
        ELSE UndefinedAccess([m EXCEPT !.trace = @ \o upTo(0)])

\* VM::runtimeError
runtimeError(m, message, args) ==
    LET m1 == [m EXCEPT !.err = Append(@, [line |-> 0, message |-> message, args |-> args])]
        m2 == Exec("runtimeErrorTrace", m1, <<m1.frameCount - 1>>)
    IN  CASE m1.ended -> m1
          [] m2.ended -> m2
          [] OTHER ->
        IF Running(m2) THEN resetStack(m2) ELSE m2

\* The machine after a table operation with this key that calls findEntry
\* (and adjustCapacity when mayGrow)
tableAccess(m, t, key, mayGrow) ==
    IF TableReadsFreed(m.heap, t, key, mayGrow) THEN UndefinedAccess(m) ELSE m

\* "clock"
ClockChars == <<99, 108, 111, 99, 107>>

\* VM::defineNative("clock", clockNative)
defineNative(m, name) ==
    LET m1 == Exec("copyString", m, <<name>>)
        m2 == Exec("push", m1, <<makeObj(m1.ret)>>)
        m3 == Exec("allocateObj", m2, <<NativeObj>>)
        native == m3.ret
        m4 == Exec("push", m3, <<makeObj(native)>>)
        m5 == [m4 EXCEPT !.heap[native].function = "clockNative"]
        key == StackAt(m5, 0)
        m6 == IF isObj(key) /\ m5.heap[key.obj].type = "String" THEN m5 ELSE BadCast(m5)
    IN  CASE m1.ended -> m1
          [] m2.ended -> m2
          [] m3.ended -> m3
          [] m4.ended -> m4
          [] m5.ended -> m5
          [] m6.ended -> m6
          [] OTHER ->
        IF ~Running(m6) THEN m6
        ELSE [tableAccess(m6, m6.globals, key.obj, TRUE)
                 EXCEPT !.globals = TableSet(m6.heap, @, key.obj, StackAt(m6, 1)).table]

\* VM::loadNativeFunctions
loadNativeFunctions(m) ==
    Exec("defineNative", m, <<ClockChars>>)

\* GC::freeObjects: every tracked object is freed; the intern table is
\* left as it is
freeObjects(m) ==
    LET listed == {m.objects[i] : i \in 1 .. Len(m.objects)}
    IN  [m EXCEPT !.heap = [obj \in DOMAIN @ |->
                               IF obj \in listed THEN [@[obj] EXCEPT !.freed = TRUE]
                               ELSE @[obj]],
                  !.bytesAllocated = @ - freeObj(m, listed),
                  !.objects = <<>>,
                  !.grayStack = <<>>]

\* VM::reset: ~VM(), GC::freeObjects() and the construction of a new VM in
\* place; the collector and the compiler are other singletons
reset(m) ==
    [freeObjects([m EXCEPT !.initString = NULL]) EXCEPT
        !.stack = <<>>, !.stackTop = 0,
        !.frames = <<>>, !.frameCount = 0,
        !.openUpvalues = NULL, !.globals = NewTable,
        !.initString = NULL, !.loadedNativeFunctions = FALSE]

\* VM::readByte: the byte is left in ret
readByte(m) ==
    LET frame == currentFrame(m)
        code == m.heap[FrameFunction(m, frame)].chunk.code
    IN  IF ~Running(m) THEN [m EXCEPT !.ret = 0]
        ELSE IF frame.ip >= code.count THEN [Fault(m, "undefined") EXCEPT !.ret = 0]
        ELSE [m EXCEPT !.frames[m.frameCount].ip = @ + 1, !.ret = code.data[frame.ip + 1]]

\* VM::readShort
readShort(m) ==
    LET m1 == Exec("readByte", m, <<>>)
        m2 == Exec("readByte", m1, <<>>)
    IN  CASE m1.ended -> [m1 EXCEPT !.ret = NULL]
          [] m2.ended -> [m2 EXCEPT !.ret = NULL]
          [] OTHER ->
        [m2 EXCEPT !.ret = m1.ret * 256 + m2.ret]

\* VM::readConstant: the Value is left in ret
readConstant(m) ==
    LET m1 == Exec("readByte", m, <<>>)
        constants == m1.heap[FrameFunction(m1, currentFrame(m1))].chunk.constants
    IN  IF ~Running(m1) THEN [m1 EXCEPT !.ret = makeNil]
        ELSE IF m1.ret >= constants.count
        THEN [Fault(AssertFailed(m1), "undefined") EXCEPT !.ret = makeNil]
        ELSE [m1 EXCEPT !.ret = constants.data[m1.ret + 1]]

\* Is the value an object of this type (isObjType)
isObjType(m, value, type) == isObj(value) /\ m.heap[value.obj].type = type

\* VM::readString: the ObjString is left in ret
readString(m) ==
    LET m1 == Exec("readConstant", m, <<>>)
    IN  IF ~Running(m1) THEN [m1 EXCEPT !.ret = NULL]
        ELSE IF ~isObjType(m1, m1.ret, "String") THEN [BadCast(m1) EXCEPT !.ret = NULL]
        ELSE [m1 EXCEPT !.ret = m1.ret.obj]

\* stackTop[-argCount - 1] = value
setCallee(m, argCount, value) ==
    IF m.stackTop - argCount - 1 < 0 THEN Fault(m, "undefined")
    ELSE [m EXCEPT !.stack = StackPut(@, m.stackTop - argCount - 1, value)]

\* A call whose frame would begin at the first argument
callAboveCallee(m, closure, argCount) ==
    LET m1 == Deref(Deref(m, closure), m.heap[closure].function)
        arity == m.heap[m.heap[closure].function].arity
        frame == [closure |-> closure, ip |-> 0, slots |-> m1.stackTop - argCount]
    IN  IF ~Running(m1) THEN [m1 EXCEPT !.ret = FALSE]
        ELSE IF argCount # arity
        THEN [Exec("runtimeError", m1, <<"Expected {} arguments but got {}.", <<arity, argCount>>>>)
                 EXCEPT !.ret = FALSE]
        ELSE IF m1.frameCount = kFramesMax
        THEN [Exec("runtimeError", m1, <<"Stack overflow.", <<>>>>) EXCEPT !.ret = FALSE]
        ELSE [m1 EXCEPT !.frames = IF m1.frameCount < Len(@)
                                   THEN [@ EXCEPT ![m1.frameCount + 1] = frame]
                                   ELSE Append(@, frame),
                        !.frameCount = @ + 1,
                        !.ret = TRUE]

\* VM::call: the bool is left in ret
call(m, closure, argCount) ==
    LET m1 == Deref(Deref(m, closure), m.heap[closure].function)
        arity == m.heap[m.heap[closure].function].arity
        frame == [closure |-> closure, ip |-> 0, slots |-> m1.stackTop - argCount - 1]
    IN  IF ~Running(m1) THEN [m1 EXCEPT !.ret = FALSE]
        ELSE IF argCount # arity
        THEN [Exec("runtimeError", m1, <<"Expected {} arguments but got {}.", <<arity, argCount>>>>)
                 EXCEPT !.ret = FALSE]
        ELSE IF m1.frameCount = kFramesMax
        THEN [Exec("runtimeError", m1, <<"Stack overflow.", <<>>>>) EXCEPT !.ret = FALSE]
        ELSE [m1 EXCEPT !.frames = IF m1.frameCount < Len(@)
                                   THEN [@ EXCEPT ![m1.frameCount + 1] = frame]
                                   ELSE Append(@, frame),
                        !.frameCount = @ + 1,
                        !.ret = TRUE]

\* Table::get on a table of the machine: [result, value] is left in ret
tableGet(m, t, key) ==
    [(IF t.count # 0 /\ m.heap[key].freed THEN UndefinedAccess(m) ELSE m)
        EXCEPT !.ret = TableGet(m.heap, t, key)]

\* allocateObj<ObjClosure>(fn): the constructor reserves and fills the
\* upvalues before the object is tracked
allocateClosure(m, fn) ==
    LET m1 == Exec("realloc", m, <<0, SizeofObj("Closure")>>)
        n == m1.heap[fn].upvalueCount
        m2 == Exec("vectorReserve", Deref(m1, fn), <<NewVector, n, SizeofPointer>>)
        upvalues == [m2.ret EXCEPT !.count = n, !.data = [j \in 1 .. n |-> NULL]]
        t == Len(m2.heap) + 1
    IN  CASE m1.ended -> [m1 EXCEPT !.ret = NULL]
          [] m2.ended -> [m2 EXCEPT !.ret = NULL]
          [] OTHER ->
        [track([m2 EXCEPT !.heap = Append(@, ClosureObj(fn, upvalues))], t) EXCEPT !.ret = t]

RECURSIVE callValue(_, _, _)

\* The end of VM::callValue for a value that cannot be called
callValueUncallable(m) ==
    [Exec("runtimeError", m, <<"Can only call closures and classes.", <<>>>>) EXCEPT !.ret = FALSE]

\* VM::callValue: the bool is left in ret
callValue(m, callee, argCount) ==
    IF ~isObj(callee) THEN Exec("callValueUncallable", m, <<>>)
    ELSE LET m0 == Deref(m, callee.obj)
             o == m.heap[callee.obj]
         IN  CASE o.type = "BoundMethod" ->
                    Exec("call", Exec("setCallee", m0, <<argCount, o.receiver>>), <<o.method, argCount>>)
               [] o.type = "Class" ->
                    LET m1 == Exec("allocateObj", m0, <<InstanceObj(callee.obj)>>)
                        m2 == Exec("setCallee", m1, <<argCount, makeObj(m1.ret)>>)
                        m3 == Exec("tableGet", m2, <<m2.heap[callee.obj].methods, m2.initString>>)
                    IN  IF m3.ret.result
                        THEN IF isObjType(m3, m3.ret.value, "Closure")
                             THEN Exec("call", m3, <<m3.ret.value.obj, argCount>>)
                             ELSE [BadCast(m3) EXCEPT !.ret = FALSE]
                        ELSE IF argCount # 0
                        THEN [Exec("runtimeError", m3, <<"Expected 0 parameters but found {} parameters", <<argCount>>>>) EXCEPT !.ret = FALSE]
                        ELSE [m3 EXCEPT !.ret = TRUE]
               [] o.type = "Closure" -> Exec("call", m0, <<callee.obj, argCount>>)
               [] o.type = "Native" ->
                    [Exec("push", [m0 EXCEPT !.stackTop = @ - (argCount + 1)], <<makeNumber(m0.clock)>>)
                        EXCEPT !.ret = TRUE]
               [] OTHER ->
                    LET a == AssertFailed(m0)
                    IN  IF Running(a) THEN Exec("callValueUncallable", a, <<>>) ELSE [a EXCEPT !.ret = FALSE]

\* VM::invokeMethod
invokeMethod(m, klass, name, argCount) ==
    LET m1 == Exec("tableGet", Deref(m, klass), <<m.heap[klass].methods, name>>)
    IN  IF ~Running(m1) THEN [m1 EXCEPT !.ret = FALSE]
        ELSE IF ~m1.ret.result
        THEN [Exec("runtimeError", m1, <<"Method {} not found on {}", <<m1.heap[name].chars, m1.heap[m1.heap[klass].name].chars>>>>)
                 EXCEPT !.ret = FALSE]
        ELSE IF ~isObjType(m1, m1.ret.value, "Closure") THEN [BadCast(m1) EXCEPT !.ret = FALSE]
        ELSE Exec("call", m1, <<m1.ret.value.obj, argCount>>)

\* VM::invoke
invoke(m, name, argCount) ==
    LET receiver == peek(m, argCount)
    IN  IF ~Running(m) THEN [m EXCEPT !.ret = FALSE]
        ELSE IF ~isObjType(m, receiver, "Instance") THEN [BadCast(m) EXCEPT !.ret = FALSE]
        ELSE LET instance == receiver.obj
                 m1 == Exec("tableGet", Deref(m, instance), <<m.heap[instance].fields, name>>)
             IN  IF m1.ret.result
                 THEN Exec("callValue", Exec("setCallee", m1, <<argCount, m1.ret.value>>), <<m1.ret.value, argCount>>)
                 ELSE Exec("invokeMethod", m1, <<m1.heap[instance].klass, name, argCount>>)

\* The loop of captureUpvalue: [previous, current] where the search stops
RECURSIVE captureUpvalueFind(_, _, _, _)
captureUpvalueFind(m, local, previous, current) ==
    IF current # NULL /\ m.heap[current].location > local
    THEN captureUpvalueFind(m, local, current, m.heap[current].next)
    ELSE [previous |-> previous, current |-> current]

\* A captureUpvalue that would make a new Upvalue for every capture
captureUpvalueAnew(m, local) ==
    LET m1 == Exec("allocateObj", m, <<UpvalueObj(local)>>)
    IN  IF m1.ended THEN [m1 EXCEPT !.ret = NULL]
        ELSE [m1 EXCEPT !.heap[m1.ret].next = m.openUpvalues,
                        !.openUpvalues = m1.ret]

\* VM::captureUpvalue for the stack slot local: the ObjUpvalue is left in ret
captureUpvalue(m, local) ==
    LET f == captureUpvalueFind(m, local, NULL, m.openUpvalues)
    IN  IF f.current # NULL /\ m.heap[f.current].location = local
        THEN [m EXCEPT !.ret = f.current]
        ELSE LET m1 == Exec("allocateObj", m, <<UpvalueObj(local)>>)
                 createdUpvalue == m1.ret
                 m2 == [m1 EXCEPT !.heap[createdUpvalue].next = f.current]
             IN  CASE m1.ended -> [m1 EXCEPT !.ret = NULL]
                   [] m2.ended -> [m2 EXCEPT !.ret = NULL]
                   [] OTHER ->
                 IF f.previous # NULL
                 THEN [Deref(m2, f.previous) EXCEPT !.heap[f.previous].next = createdUpvalue]
                 ELSE [m2 EXCEPT !.openUpvalues = createdUpvalue]

\* A closeUpvalues that would leave the upvalue of the slot last itself open
closeUpvaluesAbove(m, last) ==
    IF m.openUpvalues # NULL /\ m.heap[m.openUpvalues].location > last
    THEN LET current == m.openUpvalues
         IN  Exec("closeUpvalues", [Deref(m, current) EXCEPT
                     !.heap[current].closed = StackAt(m, m.heap[current].location),
                     !.heap[current].location = ClosedLocation,
                     !.openUpvalues = m.heap[current].next], <<last>>)
    ELSE m

\* VM::closeUpvalues down to the stack slot last
RECURSIVE closeUpvalues(_, _)
closeUpvalues(m, last) ==
    IF m.openUpvalues # NULL /\ m.heap[m.openUpvalues].location >= last
    THEN LET current == m.openUpvalues
         IN  Exec("closeUpvalues", [Deref(m, current) EXCEPT
                     !.heap[current].closed = StackAt(m, m.heap[current].location),
                     !.heap[current].location = ClosedLocation,
                     !.openUpvalues = m.heap[current].next], <<last>>)
    ELSE m

\* VM::defineMethod
defineMethod(m, methodName) ==
    LET closure == peek(m, 0)
        klass == peek(m, 1)
    IN  IF ~Running(m) THEN m
        ELSE IF ~isObjType(m, klass, "Class") THEN BadCast(m)
        ELSE Exec("pop", [tableAccess(m, m.heap[klass.obj].methods, methodName, TRUE)
                     EXCEPT !.heap[klass.obj].methods =
                                TableSet(m.heap, @, methodName, closure).table], <<>>)

\* VM::bindMethod: the bool is left in ret
bindMethod(m, klass, name) ==
    LET m1 == Exec("tableGet", Deref(m, klass), <<m.heap[klass].methods, name>>)
    IN  IF ~Running(m1) THEN [m1 EXCEPT !.ret = FALSE]
        ELSE IF ~m1.ret.result
        THEN [Exec("runtimeError", m1, <<"Unknown method {} on class {}", <<m1.heap[name].chars, m1.heap[m1.heap[klass].name].chars>>>>)
                 EXCEPT !.ret = FALSE]
        ELSE IF ~isObjType(m1, m1.ret.value, "Closure") THEN [BadCast(m1) EXCEPT !.ret = FALSE]
        ELSE LET m2 == Exec("allocateObj", m1, <<BoundMethodObj(peek(m1, 0), m1.ret.value.obj)>>)
                 boundMethod == m2.ret
             IN  [Exec("push", Exec("pop", m2, <<>>), <<makeObj(boundMethod)>>) EXCEPT !.ret = TRUE]

\* isFalsey
isFalsey(v) == isNil(v) \/ (isBool(v) /\ ~v.boolean)

\* The lambdas handed to binaryOp.  A Number of the model is an integer; a
\* quotient that is none leaves the numbers of the model ("unmodelled").
binaryOpResult(op, a, b) ==
    CASE op = "+" -> makeNumber(a + b)
      [] op = "-" -> makeNumber(a - b)
      [] op = "*" -> makeNumber(a * b)
      [] op = "/" -> makeNumber(IF b # 0 THEN a \div b ELSE 0)
      [] op = ">" -> makeBool(a > b)
      [] op = "<" -> makeBool(a < b)

\* binaryOp: the bool is left in ret
binaryOp(m, op) ==
    IF ~isNumber(peek(m, 0)) \/ ~isNumber(peek(m, 1))
    THEN [Exec("runtimeError", m, <<"Operands must be numbers.", <<>>>>) EXCEPT !.ret = FALSE]
    ELSE LET m1 == Exec("pop", m, <<>>)
             b == m1.ret.number
             m2 == Exec("pop", m1, <<>>)
             a == m2.ret.number
             m3 == IF op = "/" /\ (b = 0 \/ a % b # 0) THEN Fault(m2, "unmodelled") ELSE m2
         IN  CASE m1.ended -> [m1 EXCEPT !.ret = FALSE]
               [] m2.ended -> [m2 EXCEPT !.ret = FALSE]
               [] m3.ended -> [m3 EXCEPT !.ret = FALSE]
               [] OTHER ->
             [Exec("push", m3, <<binaryOpResult(op, a, b)>>) EXCEPT !.ret = TRUE]

\* concatenate: both operands are read with peek(0)
concatenate(m) ==
    LET b == peek(m, 0).obj
        a == peek(m, 0).obj
        chars == m.heap[a].chars \o m.heap[b].chars
        m1 == Exec("takeString", Exec("pop", Exec("pop", Deref(Deref(m, b), a), <<>>), <<>>), <<chars>>)
    IN  Exec("push", m1, <<makeObj(m1.ret)>>)

\* Value::operator== for two values of type Obj
objectsEqual(m, a, b) ==
    IF m.heap[a].type # "String" \/ m.heap[b].type # "String" THEN FALSE
    ELSE m.heap[a].length = m.heap[b].length /\ m.heap[a].chars = m.heap[b].chars

\* Value::operator==
valuesEqual(m, a, b) ==
    IF a.type # b.type THEN FALSE
    ELSE CASE a.type = "Bool" -> a.boolean = b.boolean
           [] a.type = "Number" -> a.number = b.number
           [] a.type = "Nil" -> TRUE
           [] a.type = "Obj" -> objectsEqual(m, a.obj, b.obj)

\* The decimal digits of a natural number
RECURSIVE decimalDigits(_)
decimalDigits(n) ==
    IF n < 10 THEN <<48 + n>> ELSE Append(decimalDigits(n \div 10), 48 + (n % 10))

\* The largest integer that operator<< of a double writes with all its digits
kMaxPlainNumber == 999999

\* operator<<(std::ostream&, double) for an integer of at most six digits
formatNumber(d) == IF d < 0 THEN <<45>> \o decimalDigits(0 - d) ELSE decimalDigits(d)

\* operator<<(std::ostream&, ObjFunction*)
formatFunction(m, fn) ==
    (IF m.heap[fn].name = NULL THEN <<60, 115, 99, 114, 105, 112, 116, 62>>
     ELSE <<60, 102, 110, 32>> \o m.heap[m.heap[fn].name].chars \o <<62>>)
    \o <<40>> \o decimalDigits(m.heap[fn].arity)
    \o (IF m.heap[fn].upvalueCount > 0
        THEN <<44, 32, 94>> \o decimalDigits(m.heap[fn].upvalueCount) ELSE <<>>)
    \o <<41, 32>>

\* operator<<(std::ostream&, Obj*)
formatObj(m, obj) ==
    LET o == m.heap[obj]
    IN  CASE o.type = "BoundMethod" -> formatFunction(m, m.heap[o.method].function)
          [] o.type = "Function" -> formatFunction(m, obj)
          [] o.type = "Closure" -> formatFunction(m, o.function)
          [] o.type = "Class" -> m.heap[o.name].chars
          [] o.type = "Instance" -> m.heap[m.heap[o.klass].name].chars \o <<32, 105, 110, 115, 116, 97, 110, 99, 101>>
          [] o.type = "Native" -> <<60, 110, 97, 116, 105, 118, 101, 32, 102, 110, 62>>
          [] o.type = "String" -> o.chars
          [] o.type = "Upvalue" -> <<117, 112, 118, 97, 108, 117, 101>>

\* operator<<(std::ostream&, Value): the characters written
formatValue(m, v) ==
    CASE v.type = "Bool" -> IF v.boolean THEN <<116, 114, 117, 101>> ELSE <<102, 97, 108, 115, 101>>
      [] v.type = "Nil" -> <<110, 105, 108>>
      [] v.type = "Number" -> formatNumber(v.number)
      [] v.type = "Obj" -> formatObj(m, v.obj)

\* std::cout << value << '\n': a line of the output
printValue(m, v) ==
    LET m1 == IF isObj(v) THEN Deref(m, v.obj)
              ELSE IF isNumber(v) /\ (v.number > kMaxPlainNumber \/ v.number < 0 - kMaxPlainNumber)
              THEN Fault(m, "unmodelled")
              ELSE m
    IN  IF Running(m1) THEN [m1 EXCEPT !.out = Append(@, formatValue(m1, v))] ELSE m1

\* What an iteration of the loop of VM::run leaves in ret: the
\* InterpretResult returned, or "Continue" when the loop goes on.
Continue(m) == [m EXCEPT !.ret = "Continue"]
Return(m, result) == [m EXCEPT !.ret = result]

\* The end of a case that returns RuntimeError when ok is false
ContinueIf(m) == IF m.ret THEN Continue(m) ELSE Return(m, "RuntimeError")

\* The loop of OP_CLOSURE over the upvalues i, i + 1, ... of the closure
RECURSIVE closureUpvalues(_, _, _)
closureUpvalues(m, closure, i) ==
    IF ~Running(m) \/ i >= m.heap[m.heap[closure].function].upvalueCount THEN m
    ELSE LET m1 == Exec("readByte", m, <<>>)
             isLocal == m1.ret # 0
             m2 == Exec("readByte", m1, <<>>)
             index == m2.ret
             enclosing == m2.heap[currentFrame(m2).closure].upvalues
             m3 == IF isLocal THEN Exec("captureUpvalue", m2, <<currentFrame(m2).slots + index>>)
                   ELSE IF index < enclosing.count
                   THEN [m2 EXCEPT !.ret = enclosing.data[index + 1]]
                   ELSE [UndefinedAccess(AssertFailed(m2)) EXCEPT !.ret = NULL]
         IN  closureUpvalues([m3 EXCEPT !.heap[closure].upvalues.data[i + 1] = m3.ret],
                             closure, i + 1)

\* The cases OP_JUMP, OP_JUMP_IF_FALSE, OP_LOOP, OP_CALL, OP_INVOKE,
\* OP_SUPER_INVOKE, OP_CLOSURE, OP_CLOSE_UPVALUE and OP_RETURN of VM::run
runControl(m, instruction) ==
    CASE instruction = OP_JUMP ->
            LET m1 == Exec("readShort", m, <<>>)
            IN  Continue([m1 EXCEPT !.frames[m1.frameCount].ip = @ + m1.ret])
      [] instruction = OP_JUMP_IF_FALSE ->
            LET m1 == Exec("readShort", m, <<>>)
            IN  Continue(IF isFalsey(peek(m1, 0))
                         THEN [m1 EXCEPT !.frames[m1.frameCount].ip = @ + m1.ret]
                         ELSE m1)
      [] instruction = OP_LOOP ->
            LET m1 == Exec("readShort", m, <<>>)
            IN  Continue([m1 EXCEPT !.frames[m1.frameCount].ip = @ - m1.ret])
      [] instruction = OP_CALL ->
            LET m1 == Exec("readByte", m, <<>>)
                numArgs == m1.ret
            IN  ContinueIf(Exec("callValue", m1, <<peek(m1, numArgs), numArgs>>))
      [] instruction = OP_INVOKE ->
            LET m1 == Exec("readString", m, <<>>)
                name == m1.ret
                m2 == Exec("readByte", m1, <<>>)
            IN  CASE m1.ended -> m1
                  [] m2.ended -> m2
                  [] OTHER ->
                IF Running(m2) THEN ContinueIf(Exec("invoke", m2, <<name, m2.ret>>)) ELSE m2
      [] instruction = OP_SUPER_INVOKE ->
            LET m1 == Exec("readString", m, <<>>)
                name == m1.ret
                m2 == Exec("readByte", m1, <<>>)
                argCount == m2.ret
                m3 == Exec("pop", m2, <<>>)
                superclass == m3.ret
            IN  CASE m1.ended -> m1
                  [] m2.ended -> m2
                  [] m3.ended -> m3
                  [] OTHER ->
                IF ~Running(m3) THEN m3
                ELSE IF ~isObjType(m3, superclass, "Class") THEN BadCast(m3)
                ELSE ContinueIf(Exec("invokeMethod", m3, <<superclass.obj, name, argCount>>))
      [] instruction = OP_CLOSURE ->
            LET m1 == Exec("readConstant", m, <<>>)
                fn == m1.ret
            IN  IF ~Running(m1) THEN m1
                ELSE IF ~isObjType(m1, fn, "Function") THEN BadCast(m1)
                ELSE LET m2 == Exec("allocateClosure", m1, <<fn.obj>>)
                         closure == m2.ret
                     IN  Continue(closureUpvalues(Exec("push", m2, <<makeObj(closure)>>), closure, 0))
      [] instruction = OP_CLOSE_UPVALUE ->
            Continue(Exec("pop", Exec("closeUpvalues", m, <<m.stackTop - 1>>), <<>>))
      [] instruction = OP_RETURN ->
            LET m1 == Exec("pop", m, <<>>)
                result == m1.ret
                lastFrame == currentFrame(m1)
                m2 == Exec("closeUpvalues", m1, <<lastFrame.slots>>)
                m3 == [m2 EXCEPT !.frameCount = @ - 1]
            IN  CASE m1.ended -> m1
                  [] m2.ended -> m2
                  [] m3.ended -> m3
                  [] OTHER ->
                IF ~Running(m1) THEN m1
                ELSE IF m3.frameCount = 0 THEN Return(Exec("pop", m3, <<>>), "Ok")
                ELSE Continue(Exec("push", [m3 EXCEPT !.stackTop = lastFrame.slots], <<result>>))

\* The cases OP_CLASS, OP_METHOD, OP_INHERIT, OP_GET_SUPER, OP_SET_PROPERTY
\* and OP_GET_PROPERTY of VM::run
runClass(m, instruction) ==
    CASE instruction = OP_CLASS ->
            LET m1 == Exec("readString", m, <<>>)
                m2 == IF Running(m1) THEN Exec("allocateObj", m1, <<ClassObj(m1.ret)>>) ELSE m1
            IN  CASE m1.ended -> m1
                  [] m2.ended -> m2
                  [] OTHER ->
                Continue(Exec("push", m2, <<makeObj(m2.ret)>>))
      [] instruction = OP_METHOD ->
            LET m1 == Exec("readString", m, <<>>)
            IN  IF Running(m1) THEN Continue(Exec("defineMethod", m1, <<m1.ret>>)) ELSE m1
      [] instruction = OP_INHERIT ->
            LET superclass == peek(m, 1)
                child == peek(m, 0)
            IN  IF ~isObj(superclass) THEN BadCast(m)
                ELSE IF m.heap[superclass.obj].type # "Class"
                THEN Return(Exec("runtimeError", Deref(m, superclass.obj), <<"Can only inherit from a class.", <<>>>>),
                            "RuntimeError")
                ELSE IF ~isObjType(m, child, "Class") THEN BadCast(m)
                ELSE Continue(Exec("pop", [Deref(Deref(m, superclass.obj), child.obj)
                             EXCEPT !.heap[child.obj].methods =
                                        TableAddAll(m.heap, @, m.heap[superclass.obj].methods)], <<>>))
      [] instruction = OP_GET_SUPER ->
            LET m1 == Exec("readString", m, <<>>)
                methodName == m1.ret
                m2 == Exec("pop", m1, <<>>)
                superclass == m2.ret
            IN  CASE m1.ended -> m1
                  [] m2.ended -> m2
                  [] OTHER ->
                IF ~Running(m2) THEN m2
                ELSE IF ~isObjType(m2, superclass, "Class") THEN BadCast(m2)
                ELSE ContinueIf(Exec("bindMethod", m2, <<superclass.obj, methodName>>))
      [] instruction = OP_SET_PROPERTY ->
            LET object == peek(m, 1)
            IN  IF ~isObj(object) THEN BadCast(m)
                ELSE IF m.heap[object.obj].type # "Instance"
                THEN LET a == AssertFailed(Deref(m, object.obj))
                     IN  IF Running(a)
                         THEN Return(Exec("runtimeError", a, <<"Object instances have fields.", <<>>>>),
                                     "RuntimeError")
                         ELSE a
                ELSE LET instance == object.obj
                         m1 == Exec("readString", Deref(m, instance), <<>>)
                         property == m1.ret
                         m2 == Exec("pop", m1, <<>>)
                         value == m2.ret
                     IN  CASE m1.ended -> m1
                           [] m2.ended -> m2
                           [] OTHER ->
                         IF ~Running(m2) THEN m2
                         ELSE Continue(Exec("push", Exec("pop", [tableAccess(m2, m2.heap[instance].fields, property, TRUE)
                                      EXCEPT !.heap[instance].fields =
                                                 TableSet(m2.heap, @, property, value).table], <<>>), <<value>>))
      [] instruction = OP_GET_PROPERTY ->
            LET object == peek(m, 0)
            IN  IF ~isObj(object) THEN BadCast(m)
                ELSE IF m.heap[object.obj].type # "Instance"
                THEN Return(Exec("runtimeError", Deref(m, object.obj), <<"Object instances have properties.", <<>>>>),
                            "RuntimeError")
                ELSE LET instance == object.obj
                         m1 == Exec("readString", Deref(m, instance), <<>>)
                         property == m1.ret
                         m2 == IF Running(m1)
                               THEN Exec("tableGet", m1, <<m1.heap[instance].fields, property>>) ELSE m1
                     IN  CASE m1.ended -> m1
                           [] m2.ended -> m2
                           [] OTHER ->
                         IF ~Running(m2) THEN m2
                         ELSE IF m2.ret.result THEN Continue(Exec("push", Exec("pop", m2, <<>>), <<m2.ret.value>>))
                         ELSE LET m3 == Exec("bindMethod", m2, <<m2.heap[instance].klass, property>>)
                              IN  IF ~Running(m3) \/ m3.ret THEN Continue(m3)
                                  ELSE Return(
                                           Exec("runtimeError", m3, <<"Unable to bind method: {} to class {}", <<m3.heap[property].chars,
                                                 m3.heap[m3.heap[m3.heap[instance].klass].name].chars>>>>),
                                           "RuntimeError")

\* An upvalue of the closure of the current frame, for OP_GET_UPVALUE and
\* OP_SET_UPVALUE: the ObjUpvalue is left in ret
frameUpvalue(m, slot) ==
    LET upvalues == m.heap[currentFrame(m).closure].upvalues
        m1 == IF slot < upvalues.count THEN m ELSE AssertFailed(m)
    IN  IF ~Running(m1) THEN m1
        ELSE IF slot >= upvalues.count \/ upvalues.data[slot + 1] = NULL
        THEN Fault(m1, "undefined")
        ELSE [Deref(m1, upvalues.data[slot + 1]) EXCEPT !.ret = upvalues.data[slot + 1]]

\* The cases of VM::run for variables: OP_GET_LOCAL, OP_SET_LOCAL,
\* OP_GET_GLOBAL, OP_DEFINE_GLOBAL, OP_SET_GLOBAL, OP_GET_UPVALUE, OP_SET_UPVALUE
runVariable(m, instruction) ==
    CASE instruction = OP_GET_LOCAL ->
            LET m1 == Exec("readByte", m, <<>>)
            IN  Continue(Exec("push", m1, <<StackAt(m1, currentFrame(m1).slots + m1.ret)>>))
      [] instruction = OP_SET_LOCAL ->
            LET m1 == Exec("readByte", m, <<>>)
            IN  IF ~Running(m1) THEN m1
                ELSE Continue([m1 EXCEPT !.stack = StackPut(@, currentFrame(m1).slots + m1.ret,
                                                            peek(m1, 0))])
      [] instruction = OP_GET_GLOBAL ->
            LET m1 == Exec("readString", m, <<>>)
                name == m1.ret
                m2 == IF Running(m1) THEN Exec("tableGet", m1, <<m1.globals, name>>) ELSE m1
            IN  CASE m1.ended -> m1
                  [] m2.ended -> m2
                  [] OTHER ->
                IF ~Running(m2) THEN m2
                ELSE IF ~m2.ret.result
                THEN Return(Exec("runtimeError", m2, <<"Unknown variable '{}'.", <<m2.heap[name].chars>>>>),
                            "RuntimeError")
                ELSE Continue(Exec("push", m2, <<m2.ret.value>>))
      [] instruction = OP_DEFINE_GLOBAL ->
            LET m1 == Exec("readString", m, <<>>)
                name == m1.ret
            IN  IF ~Running(m1) THEN m1
                ELSE Continue(Exec("pop", [tableAccess(m1, m1.globals, name, TRUE)
                                      EXCEPT !.globals =
                                          TableSet(m1.heap, @, name, peek(m1, 0)).table], <<>>))
      [] instruction = OP_SET_GLOBAL ->
            LET m1 == Exec("readString", m, <<>>)
                name == m1.ret
                r == TableSet(m1.heap, m1.globals, name, peek(m1, 0))
                m2 == [tableAccess(m1, m1.globals, name, TRUE) EXCEPT !.globals = r.table]
            IN  CASE m1.ended -> m1
                  [] m2.ended -> m2
                  [] OTHER ->
                IF ~Running(m1) THEN m1
                ELSE IF r.result
                THEN Return(Exec("runtimeError", [m2 EXCEPT !.globals = TableRemove(m2.heap, @, name).table], <<"Unknown variable '{}'.", <<m2.heap[name].chars>>>>),
                            "RuntimeError")
                ELSE Continue(m2)
      [] instruction = OP_GET_UPVALUE ->
            LET m1 == Exec("readByte", m, <<>>)
                m2 == IF Running(m1) THEN Exec("frameUpvalue", m1, <<m1.ret>>) ELSE m1
                upvalue == m2.heap[m2.ret]
            IN  CASE m1.ended -> m1
                  [] m2.ended -> m2
                  [] OTHER ->
                IF ~Running(m2) THEN m2
                ELSE Continue(Exec("push", m2, <<IF upvalue.location = ClosedLocation THEN upvalue.closed
                                       ELSE StackAt(m2, upvalue.location)>>))
      [] instruction = OP_SET_UPVALUE ->
            LET m1 == Exec("readByte", m, <<>>)
                m2 == IF Running(m1) THEN Exec("frameUpvalue", m1, <<m1.ret>>) ELSE m1
                upvalue == m2.heap[m2.ret]
            IN  CASE m1.ended -> m1
                  [] m2.ended -> m2
                  [] OTHER ->
                IF ~Running(m2) THEN m2
                ELSE Continue(IF upvalue.location = ClosedLocation
                              THEN [m2 EXCEPT !.heap[m2.ret].closed = peek(m2, 0)]
                              ELSE [m2 EXCEPT !.stack = StackPut(@, upvalue.location,
                                                                 peek(m2, 0))])

\* The cases of VM::run on values: OP_ADD ... OP_NEGATE, OP_PRINT, OP_POP,
\* OP_CONSTANT, OP_NIL, OP_TRUE, OP_FALSE, OP_EQUAL, OP_GREATER, OP_LESS
runValue(m, instruction) ==
    CASE instruction = OP_ADD ->
            IF isObj(peek(m, 0)) /\ isObj(peek(m, 1))
               /\ isObjType(m, peek(m, 0), "String") /\ isObjType(m, peek(m, 1), "String")
            THEN Continue(Exec("concatenate", Deref(m, peek(m, 1).obj), <<>>))
            ELSE ContinueIf(Exec("binaryOp", IF isObj(peek(m, 0)) THEN Deref(m, peek(m, 0).obj) ELSE m, <<"+">>))
      [] instruction = OP_SUBTRACT -> ContinueIf(Exec("binaryOp", m, <<"-">>))
      [] instruction = OP_MULTIPLY -> ContinueIf(Exec("binaryOp", m, <<"*">>))
      [] instruction = OP_DIVIDE -> ContinueIf(Exec("binaryOp", m, <<"/">>))
      [] instruction = OP_GREATER -> ContinueIf(Exec("binaryOp", m, <<">">>))
      [] instruction = OP_LESS -> ContinueIf(Exec("binaryOp", m, <<"<">>))
      [] instruction = OP_NOT ->
            LET m1 == Exec("pop", m, <<>>)
            IN  Continue(Exec("push", m1, <<makeBool(isFalsey(m1.ret))>>))
      [] instruction = OP_NEGATE ->
            LET m1 == Exec("pop", m, <<>>)
            IN  IF ~Running(m1) THEN m1
                ELSE IF ~isNumber(m1.ret) THEN BadCast(m1)
                ELSE Continue(Exec("push", m1, <<makeNumber(0 - m1.ret.number)>>))
      [] instruction = OP_PRINT ->
            LET m1 == Exec("pop", m, <<>>)
            IN  IF Running(m1) THEN Continue(Exec("printValue", m1, <<m1.ret>>)) ELSE m1
      [] instruction = OP_POP -> Continue(Exec("pop", m, <<>>))
      [] instruction = OP_CONSTANT ->
            LET m1 == Exec("readConstant", m, <<>>)
            IN  Continue(Exec("push", m1, <<m1.ret>>))
      [] instruction = OP_NIL -> Continue(Exec("push", m, <<makeNil>>))
      [] instruction = OP_TRUE -> Continue(Exec("push", m, <<makeBool(TRUE)>>))
      [] instruction = OP_FALSE -> Continue(Exec("push", m, <<makeBool(FALSE)>>))
      [] instruction = OP_EQUAL ->
            LET m1 == Exec("pop", m, <<>>)
                a == m1.ret
                m2 == Exec("pop", m1, <<>>)
                b == m2.ret
                m3 == IF Running(m2) /\ isObj(a) /\ isObj(b)
                      THEN Deref(Deref(m2, a.obj), b.obj) ELSE m2
            IN  CASE m1.ended -> m1
                  [] m2.ended -> m2
                  [] m3.ended -> m3
                  [] OTHER ->
                IF ~Running(m3) THEN m3
                ELSE Continue(Exec("push", m3, <<makeBool(valuesEqual(m3, a, b))>>))

\* One iteration of the loop of VM::run: "Continue" or the InterpretResult
\* returned is left in ret
runInstruction(m) ==
    LET m1 == Exec("readByte", m, <<>>)
        instruction == m1.ret
    IN  IF ~Running(m1) THEN m1
        ELSE IF instruction \in {OP_JUMP, OP_JUMP_IF_FALSE, OP_LOOP, OP_CALL, OP_INVOKE,
                                 OP_SUPER_INVOKE, OP_CLOSURE, OP_CLOSE_UPVALUE, OP_RETURN}
        THEN Exec("runControl", m1, <<instruction>>)
        ELSE IF instruction \in {OP_CLASS, OP_METHOD, OP_INHERIT, OP_GET_SUPER,
                                 OP_SET_PROPERTY, OP_GET_PROPERTY}
        THEN Exec("runClass", m1, <<instruction>>)
        ELSE IF instruction \in {OP_GET_LOCAL, OP_SET_LOCAL, OP_GET_GLOBAL, OP_DEFINE_GLOBAL,
                                 OP_SET_GLOBAL, OP_GET_UPVALUE, OP_SET_UPVALUE}
        THEN Exec("runVariable", m1, <<instruction>>)
        ELSE IF instruction \in {OP_ADD, OP_SUBTRACT, OP_MULTIPLY, OP_DIVIDE, OP_GREATER,
                                 OP_LESS, OP_NOT, OP_NEGATE, OP_PRINT, OP_POP, OP_CONSTANT,
                                 OP_NIL, OP_TRUE, OP_FALSE, OP_EQUAL}
        THEN Exec("runValue", m1, <<instruction>>)
        ELSE LET a == AssertFailed(m1)
             IN  IF Running(a) THEN Return(a, "RuntimeError") ELSE a

\* VM::interpret up to the call of run(): "CompileError" is left in ret, or
\* "Continue" when run() is entered
interpret(m, source) ==
    LET m1 == IF ~m.loadedNativeFunctions
              THEN LET n == Exec("copyString", Exec("loadNativeFunctions", m, <<>>), <<InitChars>>)
                   IN  [n EXCEPT !.loadedNativeFunctions = TRUE, !.initString = n.ret]
              ELSE m
        m2 == Exec("compile", m1, <<source>>)
        function == m2.ret
        m3 == Exec("allocateClosure", Exec("push", m2, <<makeObj(function)>>), <<function>>)
        closure == m3.ret
        m4 == Exec("call", Exec("push", Exec("pop", m3, <<>>), <<makeObj(closure)>>), <<closure, 0>>)
    IN  CASE m2.ended -> m2
          [] function = NULL -> Return(m2, "CompileError")
          [] OTHER -> Continue(m4)

\* k times the sequence s
RECURSIVE Repeated(_, _)
Repeated(s, k) ==
    IF k = 0 THEN <<>>
    ELSE LET half == Repeated(s, k \div 2)
         IN  IF k % 2 = 0 THEN half \o half ELSE half \o half \o s

\* n calls of Chunk::write with the bytes of a sequence: the calls that
\* find room in both vectors only append, the others are made one by one
RECURSIVE chunkFill(_, _, _, _)
chunkFill(m, fn, bytes, line) ==
    IF m.ended \/ bytes = <<>> THEN m
    ELSE LET code == m.heap[fn].chunk.code
             room == code.capacity - code.count
             k == IF room < Len(bytes) THEN room ELSE Len(bytes)
         IN  IF room = 0
             THEN chunkFill(Exec("chunkWrite", m, <<fn, Head(bytes), line>>), fn, Tail(bytes), line)
             ELSE chunkFill([m EXCEPT !.heap[fn].chunk.code.data = @ \o SubSeq(bytes, 1, k),
                                      !.heap[fn].chunk.code.count = @ + k,
                                      !.heap[fn].chunk.lines.data = @ \o Repeated(<<line>>, k),
                                      !.heap[fn].chunk.lines.count = @ + k],
                            fn, SubSeq(bytes, k + 1, Len(bytes)), line)

\* The code of a body of n bytes: `nil;` statements (OP_NIL OP_POP), after
\* one `!nil;` (OP_NIL OP_NOT OP_POP) when n is odd
Body(n) ==
    IF n % 2 = 1 THEN <<OP_NIL, OP_NOT, OP_POP>> \o Repeated(<<OP_NIL, OP_POP>>, (n - 3) \div 2)
    ELSE Repeated(<<OP_NIL, OP_POP>>, n \div 2)

\* VM::interpret and Compiler::compile up to the end of the body of
\* `if (c) body` or `while (c) body`, the body being n bytes; the offset of
\* the operand of the OP_JUMP_IF_FALSE is left in ret
compileBody(m, condition, n) ==
    LET natives == Exec("copyString", Exec("loadNativeFunctions", m, <<>>), <<InitChars>>)
        m1 == Exec("NewCompiler", [natives EXCEPT !.loadedNativeFunctions = TRUE,
                                                  !.initString = natives.ret,
                                                  !.parser = NoParser,
                                                  !.scanner = initScanner(<<>>)],
                   <<NULL, "Script">>)
        c == m1.ret
        m2 == Exec("emitJump", Exec("emitByte", Exec("advance", m1, <<>>), <<c, condition>>),
                   <<c, OP_JUMP_IF_FALSE>>)
        m3 == Exec("emitByte", m2, <<c, OP_POP>>)
    IN  CASE natives.ended -> natives
          [] m1.ended -> m1
          [] m2.ended -> m2
          [] m3.ended -> m3
          [] OTHER ->
        [chunkFill(m3, CompilerFunction(m3, c), Body(n), m3.parser.previous.line)
            EXCEPT !.ret = m2.ret]

\* What is left of Compiler::ifStatement and Compiler::whileStatement after
\* the patchJump, of Compiler::compile and of VM::interpret
finishStatement(m, c, kind, elseJump) ==
    LET m1 == Exec("emitByte", m, <<c, OP_POP>>)
        m2 == IF kind = "if"
              THEN LET e == Exec("match", m1, <<"Else">>)
                   IN  Exec("patchJump", IF e.ret THEN Exec("statement", e, <<c>>) ELSE e, <<c, elseJump>>)
              ELSE m1
        m3 == Exec("end", Exec("consume", Exec("compileLoop", m2, <<c>>),
                               <<"Eof", "Expected end of expression.">>), <<c>>)
        function == IF m3.parser.hadError THEN NULL ELSE m3.ret
        m4 == [m3 EXCEPT !.parser = NoParser, !.compilers = <<>>]
        m5 == Exec("allocateClosure", Exec("push", m4, <<makeObj(function)>>), <<function>>)
        closure == m5.ret
        m6 == Exec("call", Exec("push", Exec("pop", m5, <<>>), <<makeObj(closure)>>), <<closure, 0>>)
    IN  CASE m1.ended -> m1
          [] m2.ended -> m2
          [] m3.ended -> m3
          [] function = NULL -> Return(m4, "CompileError")
          [] OTHER -> Continue(m6)

(***************************************************************************)
(* Calls.  Exec(f, m, a) is the call of the function named f by the        *)
(* machine m with the arguments a.  Every call of one function by another  *)
(* is written this way, which keeps the definition of a caller separate    *)
(* from the definitions of its callees.  A process that has ended runs no  *)
(* function: Unreached gives the machine a caller then sees, in which the  *)
(* value returned is a value of the type of the function.                  *)
(***************************************************************************)
ReturnsPointer ==
    {"allocateObj", "allocateString", "internedOrNew",
     "copyString", "takeString", "NewCompiler", "emitJump",
     "makeConstant", "identifierConstant", "end", "addUpvalue",
     "parseVariable", "argumentListLoop", "argumentList",
     "readByte", "readShort", "readString", "allocateClosure",
     "captureUpvalue", "frameUpvalue"}

ReturnsBool ==
    {"match", "call", "callValueUncallable", "invokeMethod",
     "invoke", "bindMethod", "binaryOp", "callValue"}

ReturnsIndex ==
    {"resolveLocalLoop", "resolveLocal", "resolveUpvalue"}

Unreached(f, m, a) ==
    CASE f \in ReturnsPointer -> [m EXCEPT !.ret = NULL]
      [] f \in {"vectorReserve", "vectorPush"} -> [m EXCEPT !.ret = a[1]]
      [] f = "scanToken" -> [m EXCEPT !.ret = NoToken]
      [] f \in ReturnsBool -> [m EXCEPT !.ret = FALSE]
      [] f \in ReturnsIndex -> [m EXCEPT !.ret = -1]
      [] f = "readConstant" -> [m EXCEPT !.ret = makeNil]
      [] f = "tableGet" -> [m EXCEPT !.ret = [result |-> FALSE, value |-> makeNil]]
      [] OTHER -> m

Exec(f, m, a) ==
    CASE m.ended -> Unreached(f, m, a)
      [] f = "push" -> push(m, a[1])
      [] f = "pop" -> pop(m)
      [] f = "markRoots" -> markRoots(m)
      [] f = "traceReferences" -> traceReferences(m)
      [] f = "sweep" -> sweep(m)
      [] f = "garbageCollect" -> garbageCollect(m)
      [] f = "realloc" -> realloc(m, a[1], a[2])
      [] f = "allocateObj" -> allocateObj(m, a[1])
      [] f = "vectorReserve" -> vectorReserve(m, a[1], a[2], a[3])
      [] f = "vectorPush" -> vectorPush(m, a[1], a[2], a[3])
      [] f = "intern" -> intern(m, a[1])
      [] f = "allocateString" -> allocateString(m, a[1], a[2])
      [] f = "internedOrNew" -> internedOrNew(m, a[1], a[2])
      [] f = "copyString" -> copyString(m, a[1])
      [] f = "takeString" -> takeString(m, a[1])
      [] f = "chunkWrite" -> chunkWrite(m, a[1], a[2], a[3])
      [] f = "addConstant" -> addConstant(m, a[1], a[2])
      [] f = "scanToken" -> scanToken(m)
      [] f = "errorAt" -> errorAt(m, a[1], a[2])
      [] f = "errorAtCurrent" -> errorAtCurrent(m, a[1])
      [] f = "error" -> error(m, a[1])
      [] f = "advanceLoop" -> advanceLoop(m)
      [] f = "advance" -> advance(m)
      [] f = "consume" -> consume(m, a[1], a[2])
      [] f = "match" -> match(m, a[1])
      [] f = "synchronizeLoop" -> synchronizeLoop(m)
      [] f = "synchronize" -> synchronize(m)
      [] f = "NewCompiler" -> NewCompiler(m, a[1], a[2])
      [] f = "emitByte" -> emitByte(m, a[1], a[2])
      [] f = "emitBytes" -> emitBytes(m, a[1], a[2], a[3])
      [] f = "emitLoop" -> emitLoop(m, a[1], a[2])
      [] f = "emitJump" -> emitJump(m, a[1], a[2])
      [] f = "makeConstant" -> makeConstant(m, a[1], a[2])
      [] f = "identifierConstant" -> identifierConstant(m, a[1], a[2])
      [] f = "emitConstant" -> emitConstant(m, a[1], a[2])
      [] f = "patchJump" -> patchJump(m, a[1], a[2])
      [] f = "emitReturn" -> emitReturn(m, a[1])
      [] f = "end" -> end(m, a[1])
      [] f = "resolveLocalLoop" -> resolveLocalLoop(m, a[1], a[2], a[3])
      [] f = "resolveLocal" -> resolveLocal(m, a[1], a[2])
      [] f = "addUpvalue" -> addUpvalue(m, a[1], a[2], a[3])
      [] f = "resolveUpvalue" -> resolveUpvalue(m, a[1], a[2])
      [] f = "beginScope" -> beginScope(m, a[1])
      [] f = "endScopeLoop" -> endScopeLoop(m, a[1])
      [] f = "endScope" -> endScope(m, a[1])
      [] f = "addLocal" -> addLocal(m, a[1], a[2])
      [] f = "declareVariableLoop" -> declareVariableLoop(m, a[1], a[2], a[3])
      [] f = "declareVariable" -> declareVariable(m, a[1])
      [] f = "parseVariable" -> parseVariable(m, a[1], a[2])
      [] f = "markInitialized" -> markInitialized(m, a[1])
      [] f = "defineVariable" -> defineVariable(m, a[1], a[2])
      [] f = "namedVariable" -> namedVariable(m, a[1], a[2], a[3])
      [] f = "argumentListLoop" -> argumentListLoop(m, a[1], a[2])
      [] f = "argumentList" -> argumentList(m, a[1])
      [] f = "andOperator" -> andOperator(m, a[1], a[2])
      [] f = "orOperator" -> orOperator(m, a[1], a[2])
      [] f = "dot" -> dot(m, a[1], a[2])
      [] f = "binary" -> binary(m, a[1], a[2])
      [] f = "call_" -> call_(m, a[1], a[2])
      [] f = "grouping" -> grouping(m, a[1], a[2])
      [] f = "unary" -> unary(m, a[1], a[2])
      [] f = "number" -> number(m, a[1], a[2])
      [] f = "string" -> string(m, a[1], a[2])
      [] f = "variable" -> variable(m, a[1], a[2])
      [] f = "this_" -> this_(m, a[1], a[2])
      [] f = "literal" -> literal(m, a[1], a[2])
      [] f = "parseInfix" -> parseInfix(m, a[1], a[2], a[3])
      [] f = "parsePrecedence" -> parsePrecedence(m, a[1], a[2])
      [] f = "expression" -> expression(m, a[1])
      [] f = "printStatement" -> printStatement(m, a[1])
      [] f = "expressionStatement" -> expressionStatement(m, a[1])
      [] f = "varDeclaration" -> varDeclaration(m, a[1])
      [] f = "functionDeclaration" -> functionDeclaration(m, a[1])
      [] f = "parameterLoop" -> parameterLoop(m, a[1])
      [] f = "emitUpvalues" -> emitUpvalues(m, a[1], a[2], a[3], a[4])
      [] f = "defineFunction" -> defineFunction(m, a[1], a[2])
      [] f = "method" -> method(m, a[1])
      [] f = "methodLoop" -> methodLoop(m, a[1])
      [] f = "classDeclaration" -> classDeclaration(m, a[1])
      [] f = "finishStatement" -> finishStatement(m, a[1], a[2], a[3])
      [] f = "compileBody" -> compileBody(m, a[1], a[2])
      [] f = "ifStatement" -> ifStatement(m, a[1])
      [] f = "returnStatement" -> returnStatement(m, a[1])
      [] f = "whileStatement" -> whileStatement(m, a[1])
      [] f = "forStatement" -> forStatement(m, a[1])
      [] f = "statement" -> statement(m, a[1])
      [] f = "block" -> block(m, a[1])
      [] f = "declaration" -> declaration(m, a[1])
      [] f = "compileLoop" -> compileLoop(m, a[1])
      [] f = "compile" -> compile(m, a[1])
      [] f = "runtimeErrorTrace" -> runtimeErrorTrace(m, a[1])
      [] f = "runtimeError" -> runtimeError(m, a[1], a[2])
      [] f = "defineNative" -> defineNative(m, a[1])
      [] f = "loadNativeFunctions" -> loadNativeFunctions(m)
      [] f = "readByte" -> readByte(m)
      [] f = "readShort" -> readShort(m)
      [] f = "readConstant" -> readConstant(m)
      [] f = "readString" -> readString(m)
      [] f = "setCallee" -> setCallee(m, a[1], a[2])
      [] f = "call" -> call(m, a[1], a[2])
      [] f = "tableGet" -> tableGet(m, a[1], a[2])
      [] f = "allocateClosure" -> allocateClosure(m, a[1])
      [] f = "callValueUncallable" -> callValueUncallable(m)
      [] f = "callValue" -> callValue(m, a[1], a[2])
      [] f = "invokeMethod" -> invokeMethod(m, a[1], a[2], a[3])
      [] f = "invoke" -> invoke(m, a[1], a[2])
      [] f = "captureUpvalue" -> captureUpvalue(m, a[1])
      [] f = "closeUpvalues" -> closeUpvalues(m, a[1])
      [] f = "defineMethod" -> defineMethod(m, a[1])
      [] f = "bindMethod" -> bindMethod(m, a[1], a[2])
      [] f = "binaryOp" -> binaryOp(m, a[1])
      [] f = "concatenate" -> concatenate(m)
      [] f = "printValue" -> printValue(m, a[1])
      [] f = "runControl" -> runControl(m, a[1])
      [] f = "runClass" -> runClass(m, a[1])
      [] f = "frameUpvalue" -> frameUpvalue(m, a[1])
      [] f = "runVariable" -> runVariable(m, a[1])
      [] f = "runValue" -> runValue(m, a[1])
      [] f = "runInstruction" -> runInstruction(m)
      [] f = "interpret" -> interpret(m, a[1])

(***************************************************************************)
(* State.                                                                  *)
(***************************************************************************)
VARIABLES
    vm,         \* the VM singleton: collector, stacks, globals, output
    table,      \* a Table driven through its interface (tests/table_tests.cpp)
    expected,   \* history: key -> the value last set and not removed, or NoValue
    ret,        \* the last call made by a driver and what it returned
    phase,      \* "idle", "running" (inside VM::run) or "stopped" (process ended)
    calls,      \* the number of VM::interpret calls made so far
    script,     \* the closure wrapping the script of the current interpret call
    vec,        \* a Vector<int> or Array<int> driven through its interface
    written,    \* history: the values written to vec since it was last empty
    tracked     \* the template parameter TrackWithGC of vec

vars == <<vm, table, expected, ret, phase, calls, script, vec, written, tracked>>

NoValue == [type |-> "None"]

(***************************************************************************)
(* The table driver: calls of set, get and remove with keys that           *)
(* collide in a table of 8 and of 16 slots.  As in TableTest.SetWithResize *)
(* the keys are made with copyString and kept alive on the VM's stack.     *)
(***************************************************************************)
\* "h" "x" "e" "p" "u" "a" "m" "c": slots 7 7 0 7 0 4 0 2 of 8
KeyPool == << <<104>>, <<120>>, <<101>>, <<112>>, <<117>>, <<97>>, <<109>>, <<99>> >>

Keys == 1 .. NumKeys
\* The values the driver stores under key k: they differ from key to key
ValsOf(k) == {makeNumber(10 * k + n) : n \in 1 .. (IF k <= NumRewritten THEN NumVals ELSE 1)}

\* makeString and VM::push for the keys k .. Len(KeyPool): the driver calls
\* the table with the first NumKeys of them
RECURSIVE makeKeys(_, _)
makeKeys(m, k) ==
    IF k > Len(KeyPool) THEN m
    ELSE LET m1 == Exec("copyString", m, <<KeyPool[k]>>)
         IN  makeKeys(Exec("push", m1, <<makeObj(m1.ret)>>), k + 1)

\* The String of key k, read back from the stack slot that keeps it alive
Key(k) == StackAt(vm, k - 1).obj

InitTable ==
    /\ vm = makeKeys(NewVM(FALSE, FALSE, FALSE), 1)
    /\ table = NewTable
    /\ expected = [k \in Keys |-> NoValue]
    /\ ret = [op |-> "none"]
    /\ phase = "idle"
    /\ calls = 0
    /\ script = NULL
    /\ vec = NewVector
    /\ written = <<>>
    /\ tracked = TRUE

TblSet(k, v) ==
    LET r == TableSet(vm.heap, table, Key(k), v)
    IN  /\ table' = r.table
        /\ ret' = [op |-> "set", key |-> k, result |-> r.result,
                   wasPresent |-> expected[k] # NoValue]
        /\ expected' = [expected EXCEPT ![k] = v]
        /\ UNCHANGED <<vec, written, tracked, vm, phase, calls, script>>

TblGet(k) ==
    LET r == TableGet(vm.heap, table, Key(k))
    IN  /\ ret' = [op |-> "get", key |-> k, result |-> r.result, value |-> r.value]
        /\ UNCHANGED <<vec, written, tracked, vm, table, expected, phase, calls, script>>

TblRemove(k) ==
    LET r == TableRemove(vm.heap, table, Key(k))
    IN  /\ table' = r.table
        /\ ret' = [op |-> "remove", key |-> k, result |-> r.result]
        /\ expected' = [expected EXCEPT ![k] = NoValue]
        /\ UNCHANGED <<vec, written, tracked, vm, phase, calls, script>>

NextTable ==
    \/ \E k \in Keys : \E v \in ValsOf(k) : TblSet(k, v)
    \/ \E k \in Keys : TblGet(k)
    \/ \E k \in Keys : TblRemove(k)

SpecTable == InitTable /\ [][NextTable]_vars

(***************************************************************************)
(* Claims about the table, checked under SpecTable.                        *)
(***************************************************************************)
HasTombstone(t) == \E i \in 0 .. t.capacity - 1 : isTombstone(t.entries[i])

\* C2: after any sequence of set and remove calls, get(k) returns true with
\* the value of the last set(k, v) not followed by remove(k), and false for
\* a key never set or removed since; so no removal hides another key.
C2_GetReturnsLastSet ==
    /\ \A k \in Keys :
          LET r == TableGet(vm.heap, table, Key(k))
          IN  IF expected[k] = NoValue
              THEN r.result = FALSE
              ELSE r.result = TRUE /\ r.value = expected[k]
    /\ ret.op = "get" =>
          IF expected[ret.key] = NoValue
          THEN ret.result = FALSE
          ELSE ret.result = TRUE /\ ret.value = expected[ret.key]

\* C2 witness: the table has grown beyond its first capacity, holds a
\* tombstone and colliding keys, and a get has just found its key.
C2_Witness ==
    /\ table.capacity > kMinCapacity
    /\ HasTombstone(table)
    /\ ret.op = "get" /\ ret.result = TRUE
    /\ \E k \in Keys : expected[k] = NoValue
    /\ \E i \in 0 .. table.capacity - 1 :
          /\ table.entries[i].key # NULL
          /\ HashMod(vm.heap[table.entries[i].key].hash, table.capacity) # i

\* The number of slots that hold a key or a tombstone
Occupied(t) ==
    Cardinality({i \in 0 .. t.capacity - 1 :
                    t.entries[i].key # NULL \/ isTombstone(t.entries[i])})

\* The table after set has been called with the keys from .. to as well
RECURSIVE SetFurther(_, _, _, _)
SetFurther(hp, t, from, to) ==
    IF from > to THEN t
    ELSE SetFurther(hp, TableSet(hp, t, Key(from), makeNumber(from)).table, from + 1, to)

\* The load of t is within the limit and every probe of t ends
LoadWithinLimit(hp, t) ==
    /\ t.count = Occupied(t)
    /\ kMaxLoadDen * Occupied(t) <= kMaxLoadNum * t.capacity
    /\ \/ t.capacity = 0
       \/ \E n \in 0 .. 2 : t.capacity = kMinCapacity * (kGrowthFactor ^ n)
    /\ t.capacity > 0 =>
          /\ \E i \in 0 .. t.capacity - 1 : t.entries[i] = EmptyEntry
          /\ \A k \in 1 .. Len(KeyPool) :
                /\ findEntry(hp, t.entries, t.capacity, Key(k)) # NoEntry
                /\ findKey(hp, t, KeyPool[k], hp[Key(k)].hash).key # NoEntry
                /\ findKey(hp, t, KeyPool[k] \o KeyPool[k], hp[Key(k)].hash).key = NULL

\* C34: after every operation of a table (the calls of the driver, and the
\* sets of further keys that fill it beyond its first capacity) the slots
\* that hold a key or a tombstone are at most 3/4 of the capacity, which is
\* 0 or 8 doubled some times; so an empty slot that is no tombstone is
\* left and findEntry and findKey end for every key, present or absent;
\* a growth keeps the live entries and drops the tombstones.
C34_LoadLeavesAnEmptySlot ==
    /\ \A to \in NumKeys .. Len(KeyPool) :
          LoadWithinLimit(vm.heap, SetFurther(vm.heap, table, NumKeys + 1, to))
    /\ LET grown == adjustCapacity(vm.heap, table)
       IN  /\ grown.capacity = growCapacity(table.capacity)
           /\ ~HasTombstone(grown)
           /\ TableKeys(grown) = TableKeys(table)
           /\ grown.count = Cardinality(TableKeys(table))
           /\ LoadWithinLimit(vm.heap, grown)

\* C34 witness: a set has just filled a table that holds a tombstone up to
\* the limit, so the next new key makes it grow.
C34_Witness ==
    /\ ret.op = "set"
    /\ HasTombstone(table)
    /\ table.capacity > 0
    /\ OverLoad(table)
    /\ SetFurther(vm.heap, table, NumKeys + 1, NumKeys + 1).capacity > table.capacity

\* C3 (as claimed): set returns true exactly when the key was not present
\* immediately before the call, a removed key included.
C3_SetReturnsTrueIffAbsent ==
    ret.op = "set" => (ret.result = ~ret.wasPresent)

(***************************************************************************)
(* The vector driver: push (write), reserve and clear (free) called on a   *)
(* Vector<int> or Array<int> of either allocator flavour, as in            *)
(* tests/vector_tests.cpp and tests/array_tests.cpp.  The values written   *)
(* are start + i as in the tests.                                          *)
(***************************************************************************)
MaxVecLen == 18

\* sizeof(int)
SizeofInt == 4

\* The capacities the driver reserves
ReserveSizes == {0, 5, 12, 21}

InitVector ==
    /\ vm = NewVM(TRUE, FALSE, FALSE)
    /\ table = NewTable
    /\ expected = [k \in Keys |-> NoValue]
    /\ ret = [op |-> "none"]
    /\ phase = "idle"
    /\ calls = 0
    /\ script = NULL
    /\ vec = NewVector
    /\ written = <<>>
    /\ tracked \in BOOLEAN

\* vec.push(start + i)
VecPush ==
    /\ ret.op # "clear"
    /\ vec.count < MaxVecLen
    /\ vm' = IF tracked THEN Exec("vectorPush", vm, <<vec, 100 + vec.count, SizeofInt>>)
             ELSE [vm EXCEPT !.ret = vectorPushUntracked(vec, 100 + vec.count)]
    /\ vec' = vm'.ret
    /\ written' = Append(written, 100 + vec.count)
    /\ ret' = [op |-> "push"]
    /\ UNCHANGED <<table, expected, phase, calls, script, tracked>>

\* vec.reserve(n)
VecReserve(n) ==
    /\ ret.op # "clear"
    /\ vm' = IF tracked THEN Exec("vectorReserve", vm, <<vec, n, SizeofInt>>)
             ELSE [vm EXCEPT !.ret = vectorReserveUntracked(vec, n)]
    /\ vec' = vm'.ret
    /\ ret' = [op |-> "reserve", n |-> n]
    /\ UNCHANGED <<table, expected, phase, calls, script, written, tracked>>

\* vec.clear(), the last call made on a vector
VecClear ==
    /\ ret.op # "clear"
    /\ vec' = vectorClear(vec)
    /\ written' = <<>>
    /\ ret' = [op |-> "clear"]
    /\ UNCHANGED <<vm, table, expected, phase, calls, script, tracked>>

NextVector ==
    \/ VecPush
    \/ \E n \in ReserveSizes : VecReserve(n)
    \/ VecClear

SpecVector == InitVector /\ [][NextVector]_vars

(***************************************************************************)
(* Claims about Vector and Array, checked under SpecVector.                *)
(***************************************************************************)
\* C15: after any sequence of push (write) and reserve calls on either
\* flavour, count is the number of values written, count <= capacity and
\* element i is the i-th value written, across every growth; clear (free)
\* returns count and capacity to 0.
C15_VectorKeepsWhatWasWritten ==
    /\ vec.count = Len(written)
    /\ vec.count <= vec.capacity
    /\ vec.data = written
    /\ ret.op = "clear" => vec.count = 0 /\ vec.capacity = 0

\* C15 witness: a vector that has grown twice holds what was written.
C15_Witness ==
    /\ ret.op = "push"
    /\ vec.count > kMinCapacity * kGrowthFactor
    /\ vec.capacity = kMinCapacity * kGrowthFactor * kGrowthFactor
    /\ vec.data = written

\* C16: reserve(n) leaves count and the elements as they are; when
\* n >= count the capacity becomes n, be that more or less than before,
\* and a push into spare capacity does not change the capacity; when
\* n < count the call changes nothing.
C16_ReserveSetsCapacity ==
    [][/\ ret'.op = "reserve" =>
             /\ vec'.count = vec.count
             /\ vec'.data = vec.data
             /\ ret'.n >= vec.count => vec'.capacity = ret'.n
             /\ ret'.n < vec.count => vec' = vec
       /\ ret'.op = "push" /\ vec.count < vec.capacity =>
             vec'.capacity = vec.capacity]_vars

\* C16 witness: a reserve has just shrunk the capacity of a vector that
\* holds elements to exactly the number asked for.
C16_Witness ==
    /\ ret.op = "reserve"
    /\ vec.count > 0
    /\ vec.count < ret.n
    /\ vec.capacity = ret.n
    /\ ret.n < kMinCapacity

(***************************************************************************)
(* The string driver: copyString and takeString called as the tests and    *)
(* the compiler call them, the result kept alive on the VM's stack or not  *)
(* (tests/object_tests.cpp, tests/table_tests.cpp).  Collections happen    *)
(* inside realloc, at every allocation when DEBUG_STRESS_GC is defined.    *)
(***************************************************************************)
\* "a" "b" "ab"
StrPool == << <<97>>, <<98>>, <<97, 98>> >>

MaxObjects == 4
MaxRoots == 2

StringCalls == {"copyString", "takeString"}

\* The tests are built with CL_DEBUG, with and without DEBUG_STRESS_GC.
InitStrings ==
    /\ vm \in {NewVM(TRUE, s, u) : s \in BOOLEAN, u \in BOOLEAN}
    /\ table = NewTable
    /\ expected = [k \in Keys |-> NoValue]
    /\ ret = [op |-> "none"]
    /\ phase = "idle"
    /\ calls = 0
    /\ script = NULL
    /\ vec = NewVector
    /\ written = <<>>
    /\ tracked = TRUE

StrCopy(k) ==
    /\ Running(vm)
    /\ Len(vm.heap) < MaxObjects
    /\ vm' = Exec("copyString", vm, <<StrPool[k]>>)
    /\ ret' = [op |-> "copyString", chars |-> StrPool[k], result |-> vm'.ret]
    /\ UNCHANGED <<vec, written, tracked, table, expected, phase, calls, script>>

StrTake(k) ==
    /\ Running(vm)
    /\ Len(vm.heap) < MaxObjects
    /\ vm' = Exec("takeString", vm, <<StrPool[k]>>)
    /\ ret' = [op |-> "takeString", chars |-> StrPool[k], result |-> vm'.ret]
    /\ UNCHANGED <<vec, written, tracked, table, expected, phase, calls, script>>

\* VM::push of the String just returned
StrPush ==
    /\ Running(vm)
    /\ ret.op \in StringCalls
    /\ vm.stackTop < MaxRoots
    /\ vm' = Exec("push", vm, <<makeObj(ret.result)>>)
    /\ ret' = [op |-> "push"]
    /\ UNCHANGED <<vec, written, tracked, table, expected, phase, calls, script>>

\* VM::pop
StrPop ==
    /\ Running(vm)
    /\ vm.stackTop > 0
    /\ vm' = Exec("pop", vm, <<>>)
    /\ ret' = [op |-> "pop"]
    /\ UNCHANGED <<vec, written, tracked, table, expected, phase, calls, script>>

NextStrings ==
    \/ \E k \in DOMAIN StrPool : StrCopy(k)
    \/ \E k \in DOMAIN StrPool : StrTake(k)
    \/ StrPush
    \/ StrPop

SpecStrings == InitStrings /\ [][NextStrings]_vars

(***************************************************************************)
(* Claims about interning and the collector, checked under SpecStrings.    *)
(***************************************************************************)
LiveStrings(m) ==
    {o \in 1 .. Len(m.heap) : m.heap[o].type = "String" /\ ~m.heap[o].freed}

\* C4 (as claimed): copyString and takeString return a live String with the
\* bytes of the input, also after collections, and no two distinct live
\* Strings have equal bytes.
C4_InternedStringIsLiveAndUnique ==
    /\ ret.op \in StringCalls =>
          /\ Running(vm) /\ ~vm.undefined
          /\ ret.result \in LiveStrings(vm)
          /\ vm.heap[ret.result].chars = ret.chars
    /\ \A a, b \in LiveStrings(vm) :
          vm.heap[a].chars = vm.heap[b].chars => a = b

\* C5 (as claimed): after a collection every key of the intern table is a
\* String that survived the sweep.
C5_InternTableHoldsNoFreedString ==
    \A i \in 0 .. vm.strings.capacity - 1 :
        vm.strings.entries[i].key # NULL => ~vm.heap[vm.strings.entries[i].key].freed

\* The objects linked in the list of the collector
Listed(m) == {m.objects[i] : i \in 1 .. Len(m.objects)}

\* The objects allocated and not freed
LiveObjects(m) == {o \in 1 .. Len(m.heap) : ~m.heap[o].freed}

\* Obj::next of each object of a list
NextOf(objects) ==
    [obj \in {objects[i] : i \in 1 .. Len(objects)} |->
        LET i == CHOOSE j \in 1 .. Len(objects) : objects[j] = obj
        IN  IF i = Len(objects) THEN NULL ELSE objects[i + 1]]

\* The list that starts at head, followed through next
RECURSIVE ListFrom(_, _)
ListFrom(head, next) ==
    IF head = NULL THEN <<>> ELSE <<head>> \o ListFrom(next[head], next)

\* The loop of GC::sweep on the pointers: objects is the head of the list,
\* freed the objects given to freeObj, linkedWhenFreed whether one of them
\* was still on the list at that time
RECURSIVE sweepLoop(_, _, _, _, _, _, _)
sweepLoop(marked, objects, next, previous, current, freed, linkedWhenFreed) ==
    IF current = NULL
    THEN [objects |-> ListFrom(objects, next), freed |-> freed,
          linkedWhenFreed |-> linkedWhenFreed]
    ELSE IF current \in marked
    THEN sweepLoop(marked \ {current}, objects, next, current, next[current],
                   freed, linkedWhenFreed)
    ELSE LET garbage == current
             after == next[current]
             relinked == IF previous # NULL THEN [next EXCEPT ![previous] = after] ELSE next
             head == IF previous # NULL THEN objects ELSE after
         IN  sweepLoop(marked, head, relinked, previous, after, freed \cup {garbage},
                       linkedWhenFreed
                           \/ \E i \in 1 .. Len(ListFrom(head, relinked)) :
                                 ListFrom(head, relinked)[i] = garbage)

\* The machine with exactly the objects of marked marked
MarkedAs(m, marked) ==
    [m EXCEPT !.heap = [obj \in DOMAIN @ |-> [@[obj] EXCEPT !.isMarked = obj \in marked]]]

\* C35: in every state each object allocated and not freed is linked in
\* the list of the collector exactly once and no freed object is linked;
\* whichever objects of the list are marked, the loop of sweep unlinks each
\* unmarked object (head, interior or tail) before it frees it and leaves
\* the marked ones linked in their order; freeObjects frees every object
\* of the list and empties it.
C35_LiveObjectsAreLinkedOnce ==
    /\ Listed(vm) = LiveObjects(vm)
    /\ Cardinality(Listed(vm)) = Len(vm.objects)
    /\ \A marked \in SUBSET Listed(vm) :
          LET loop == sweepLoop(marked, IF vm.objects = <<>> THEN NULL ELSE vm.objects[1],
                                NextOf(vm.objects), NULL,
                                IF vm.objects = <<>> THEN NULL ELSE vm.objects[1], {}, FALSE)
              swept == sweep(MarkedAs(vm, marked))
          IN  /\ loop.objects = SelectSeq(vm.objects, LAMBDA obj : obj \in marked)
              /\ loop.freed = Listed(vm) \ marked
              /\ ~loop.linkedWhenFreed
              /\ swept.objects = loop.objects
              /\ LiveObjects(swept) = LiveObjects(vm) \ loop.freed
              /\ Listed(swept) = LiveObjects(swept)
    /\ LET ended == freeObjects(vm)
       IN  ended.objects = <<>> /\ LiveObjects(ended) = {}

\* C35 witness: a collection has swept an object off the list while an
\* older object stayed linked, and the String that the last call returned
\* was linked in front of both.
C35_Witness ==
    /\ ret.op \in StringCalls
    /\ ret.result \in Listed(vm)
    /\ \E o \in Listed(vm) : \E f \in 1 .. Len(vm.heap) :
          o < f /\ f < ret.result /\ vm.heap[f].freed

(***************************************************************************)
(* The interpreter driver: VM::interpret called with the sources below,    *)
(* one call after the other on the same VM (the REPL of main.cpp).  The    *)
(* loop of VM::run takes one step for each instruction.                    *)
(***************************************************************************)
\*   print 1 + 2 * 3;
ArithmeticSource ==
    << 112, 114, 105, 110, 116, 32, 49, 32, 43, 32, 50, 32, 42, 32, 51, 59 >>

\*   fun make() { var x = 0; fun inc() { x = x + 1; return x; } return inc; } var c = make(); print c(); print c(); print c();
ClosureSource ==
    << 102, 117, 110, 32, 109, 97, 107, 101, 40, 41, 32, 123, 32, 118, 97, 114, 32, 120,
       32, 61, 32, 48, 59, 32, 102, 117, 110, 32, 105, 110, 99, 40, 41, 32, 123, 32,
       120, 32, 61, 32, 120, 32, 43, 32, 49, 59, 32, 114, 101, 116, 117, 114, 110, 32,
       120, 59, 32, 125, 32, 114, 101, 116, 117, 114, 110, 32, 105, 110, 99, 59, 32,
       125, 32, 118, 97, 114, 32, 99, 32, 61, 32, 109, 97, 107, 101, 40, 41, 59, 32,
       112, 114, 105, 110, 116, 32, 99, 40, 41, 59, 32, 112, 114, 105, 110, 116, 32, 99,
       40, 41, 59, 32, 112, 114, 105, 110, 116, 32, 99, 40, 41, 59 >>

\*   fun make(x) { fun inc() { x = x + 1; return x; } return inc; } fun three(c) { print c(); print c(); print c(); } three(make(0));
CounterSource ==
    << 102, 117, 110, 32, 109, 97, 107, 101, 40, 120, 41, 32, 123, 32, 102, 117, 110,
       32, 105, 110, 99, 40, 41, 32, 123, 32, 120, 32, 61, 32, 120, 32, 43, 32, 49, 59,
       32, 114, 101, 116, 117, 114, 110, 32, 120, 59, 32, 125, 32, 114, 101, 116, 117,
       114, 110, 32, 105, 110, 99, 59, 32, 125, 32, 102, 117, 110, 32, 116, 104, 114,
       101, 101, 40, 99, 41, 32, 123, 32, 112, 114, 105, 110, 116, 32, 99, 40, 41, 59,
       32, 112, 114, 105, 110, 116, 32, 99, 40, 41, 59, 32, 112, 114, 105, 110, 116, 32,
       99, 40, 41, 59, 32, 125, 32, 116, 104, 114, 101, 101, 40, 109, 97, 107, 101, 40,
       48, 41, 41, 59 >>

\*   print "ab" + "cd" == "abcd";
ConcatSource ==
    << 112, 114, 105, 110, 116, 32, 34, 97, 98, 34, 32, 43, 32, 34, 99, 100, 34, 32, 61,
       61, 32, 34, 97, 98, 99, 100, 34, 59 >>

\*   class A { greet() { print "A"; } } class B < A { greet() { super.greet(); print "B"; } } B().greet();
SuperSource ==
    << 99, 108, 97, 115, 115, 32, 65, 32, 123, 32, 103, 114, 101, 101, 116, 40, 41, 32,
       123, 32, 112, 114, 105, 110, 116, 32, 34, 65, 34, 59, 32, 125, 32, 125, 32, 99,
       108, 97, 115, 115, 32, 66, 32, 60, 32, 65, 32, 123, 32, 103, 114, 101, 101, 116,
       40, 41, 32, 123, 32, 115, 117, 112, 101, 114, 46, 103, 114, 101, 101, 116, 40,
       41, 59, 32, 112, 114, 105, 110, 116, 32, 34, 66, 34, 59, 32, 125, 32, 125, 32,
       66, 40, 41, 46, 103, 114, 101, 101, 116, 40, 41, 59 >>

\*   class A { greet() { print "A"; } } class B < A { hi() { print "B"; } } B().hi(); B().greet();
InheritSource ==
    << 99, 108, 97, 115, 115, 32, 65, 32, 123, 32, 103, 114, 101, 101, 116, 40, 41, 32,
       123, 32, 112, 114, 105, 110, 116, 32, 34, 65, 34, 59, 32, 125, 32, 125, 32, 99,
       108, 97, 115, 115, 32, 66, 32, 60, 32, 65, 32, 123, 32, 104, 105, 40, 41, 32,
       123, 32, 112, 114, 105, 110, 116, 32, 34, 66, 34, 59, 32, 125, 32, 125, 32, 66,
       40, 41, 46, 104, 105, 40, 41, 59, 32, 66, 40, 41, 46, 103, 114, 101, 101, 116,
       40, 41, 59 >>

\*   print x;
UndefinedSource ==
    << 112, 114, 105, 110, 116, 32, 120, 59 >>

\*   print clock == clock; print 1 == 1; print nil == nil; print "a" == "a"; print 1 == true; print clock() == clock();
EqualSource ==
    << 112, 114, 105, 110, 116, 32, 99, 108, 111, 99, 107, 32, 61, 61, 32, 99, 108, 111,
       99, 107, 59, 32, 112, 114, 105, 110, 116, 32, 49, 32, 61, 61, 32, 49, 59, 32,
       112, 114, 105, 110, 116, 32, 110, 105, 108, 32, 61, 61, 32, 110, 105, 108, 59,
       32, 112, 114, 105, 110, 116, 32, 34, 97, 34, 32, 61, 61, 32, 34, 97, 34, 59, 32,
       112, 114, 105, 110, 116, 32, 49, 32, 61, 61, 32, 116, 114, 117, 101, 59, 32, 112,
       114, 105, 110, 116, 32, 99, 108, 111, 99, 107, 40, 41, 32, 61, 61, 32, 99, 108,
       111, 99, 107, 40, 41, 59 >>

\*   fun f() { f(); } f();
OverflowSource ==
    << 102, 117, 110, 32, 102, 40, 41, 32, 123, 32, 102, 40, 41, 59, 32, 125, 32, 102,
       40, 41, 59 >>

\*   print 1; fun g() {} print ;
CompileErrorSource ==
    << 112, 114, 105, 110, 116, 32, 49, 59, 32, 102, 117, 110, 32, 103, 40, 41, 32, 123,
       125, 32, 112, 114, 105, 110, 116, 32, 59 >>

\*   x = 1;
AssignSource ==
    << 120, 32, 61, 32, 49, 59 >>

\*   fun f(x) { fun g() { return x; } nil(); } f(1);
UpvalueErrorSource ==
    << 102, 117, 110, 32, 102, 40, 120, 41, 32, 123, 32, 102, 117, 110, 32, 103, 40, 41,
       32, 123, 32, 114, 101, 116, 117, 114, 110, 32, 120, 59, 32, 125, 32, 110, 105,
       108, 40, 41, 59, 32, 125, 32, 102, 40, 49, 41, 59 >>

\*   fun f(a) { fun g() { return a; } { fun h() {} fun k() { return h; } } fun j() { return a; } return g; } print f(1)();
BlockSource ==
    << 102, 117, 110, 32, 102, 40, 97, 41, 32, 123, 32, 102, 117, 110, 32, 103, 40, 41,
       32, 123, 32, 114, 101, 116, 117, 114, 110, 32, 97, 59, 32, 125, 32, 123, 32, 102,
       117, 110, 32, 104, 40, 41, 32, 123, 125, 32, 102, 117, 110, 32, 107, 40, 41, 32,
       123, 32, 114, 101, 116, 117, 114, 110, 32, 104, 59, 32, 125, 32, 125, 32, 102,
       117, 110, 32, 106, 40, 41, 32, 123, 32, 114, 101, 116, 117, 114, 110, 32, 97, 59,
       32, 125, 32, 114, 101, 116, 117, 114, 110, 32, 103, 59, 32, 125, 32, 112, 114,
       105, 110, 116, 32, 102, 40, 49, 41, 40, 41, 59 >>

\*   fun f(a, b) { print a + b; return a; } print f(1, 2);
CallSource ==
    << 102, 117, 110, 32, 102, 40, 97, 44, 32, 98, 41, 32, 123, 32, 112, 114, 105, 110,
       116, 32, 97, 32, 43, 32, 98, 59, 32, 114, 101, 116, 117, 114, 110, 32, 97, 59,
       32, 125, 32, 112, 114, 105, 110, 116, 32, 102, 40, 49, 44, 32, 50, 41, 59 >>

\*   class A {} fun f(a) { class B < A {} fun g() {} print g; } f(7);
ClassLocalSource ==
    << 99, 108, 97, 115, 115, 32, 65, 32, 123, 125, 32, 102, 117, 110, 32, 102, 40, 97,
       41, 32, 123, 32, 99, 108, 97, 115, 115, 32, 66, 32, 60, 32, 65, 32, 123, 125, 32,
       102, 117, 110, 32, 103, 40, 41, 32, 123, 125, 32, 112, 114, 105, 110, 116, 32,
       103, 59, 32, 125, 32, 102, 40, 55, 41, 59 >>

\*   nil.x = 1;
SetPropertySource ==
    << 110, 105, 108, 46, 120, 32, 61, 32, 49, 59 >>

\*   print -nil;
NegateSource ==
    << 112, 114, 105, 110, 116, 32, 45, 110, 105, 108, 59 >>

\*   "s"();
CallStringSource ==
    << 34, 115, 34, 40, 41, 59 >>

\*   "s".m();
InvokeSource ==
    << 34, 115, 34, 46, 109, 40, 41, 59 >>

\*   class A { init() { return; } } print A();
InitReturnSource ==
    << 99, 108, 97, 115, 115, 32, 65, 32, 123, 32, 105, 110, 105, 116, 40, 41, 32, 123,
       32, 114, 101, 116, 117, 114, 110, 59, 32, 125, 32, 125, 32, 112, 114, 105, 110, 116,
       32, 65, 40, 41, 59 >>

\*   class A { init() { return 1; } } print A();
InitReturnValueSource ==
    << 99, 108, 97, 115, 115, 32, 65, 32, 123, 32, 105, 110, 105, 116, 40, 41, 32, 123,
       32, 114, 101, 116, 117, 114, 110, 32, 49, 59, 32, 125, 32, 125, 32, 112, 114, 105,
       110, 116, 32, 65, 40, 41, 59 >>

\*   fun f(a) { fun g() { fun h() { return a; } fun k() { return a; } return k; } return g; } print f(1)()();
NestedCaptureSource ==
    << 102, 117, 110, 32, 102, 40, 97, 41, 32, 123, 32, 102, 117, 110, 32, 103, 40, 41,
       32, 123, 32, 102, 117, 110, 32, 104, 40, 41, 32, 123, 32, 114, 101, 116, 117, 114,
       110, 32, 97, 59, 32, 125, 32, 102, 117, 110, 32, 107, 40, 41, 32, 123, 32, 114, 101,
       116, 117, 114, 110, 32, 97, 59, 32, 125, 32, 114, 101, 116, 117, 114, 110, 32, 107,
       59, 32, 125, 32, 114, 101, 116, 117, 114, 110, 32, 103, 59, 32, 125, 32, 112, 114,
       105, 110, 116, 32, 102, 40, 49, 41, 40, 41, 40, 41, 59 >>

Sources ==
    << ArithmeticSource, ClosureSource, CounterSource, ConcatSource,
       SuperSource, InheritSource, UndefinedSource, EqualSource,
       OverflowSource, CompileErrorSource, AssignSource, UpvalueErrorSource,
       BlockSource, CallSource, ClassLocalSource, SetPropertySource,
       NegateSource, CallStringSource, InvokeSource,
       InitReturnSource,
       InitReturnValueSource,
       NestedCaptureSource >>

\* The sources a second call of interpret is made with
Followups == {ArithmeticSource, AssignSource}

MaxCalls == 2
MaxClock == 1

\* What std::clock() may return to clockNative
ClockReadings == 0 .. MaxClock

\* "now"
NowChars == <<110, 111, 119>>

InitVM ==
    /\ vm \in {NewVM(d, FALSE, u) : d \in BOOLEAN, u \in BOOLEAN}
    /\ table = NewTable
    /\ expected = [k \in Keys |-> NoValue]
    /\ ret = [op |-> "none"]
    /\ phase = "idle"
    /\ calls = 0
    /\ script = NULL
    /\ vec = NewVector
    /\ written = <<>>
    /\ tracked = TRUE

\* What the caller of interpret has got: the InterpretResult, "Continue"
\* while run() has not returned, "Ended" when the process has ended
Outcome(m) == IF Running(m) THEN m.ret ELSE "Ended"

PhaseAfter(m) ==
    IF ~Running(m) THEN "stopped"
    ELSE IF m.ret = "Continue" THEN "running" ELSE "idle"

\* VM::interpret(source) up to the first instruction of run()
Interpret(p) ==
    /\ phase = "idle"
    /\ calls < MaxCalls
    /\ calls = 0 \/ Sources[p] \in Followups
    /\ vm' = Exec("interpret", vm, <<Sources[p]>>)
    /\ calls' = calls + 1
    /\ phase' = PhaseAfter(vm')
    /\ ret' = [op |-> "interpret", source |-> p, printed |-> Len(vm.out),
               result |-> Outcome(vm')]
    /\ script' = IF PhaseAfter(vm') = "running" /\ isObj(peek(vm', 0))
                 THEN peek(vm', 0).obj ELSE NULL
    /\ UNCHANGED <<vec, written, tracked, table, expected>>

\* One iteration of the loop of VM::run
Step ==
    /\ phase = "running"
    /\ \E t \in ClockReadings :
          vm' = [Exec("runInstruction", [vm EXCEPT !.clock = t], <<>>) EXCEPT !.clock = 0]
    /\ phase' = PhaseAfter(vm')
    /\ ret' = [ret EXCEPT !.result = Outcome(vm')]
    /\ UNCHANGED <<vec, written, tracked, table, expected, calls, script>>

\* VM::reset() between two calls of interpret
Reset ==
    /\ phase = "idle"
    /\ ret.op = "interpret"
    /\ vm' = reset(vm)
    /\ ret' = [op |-> "reset"]
    /\ UNCHANGED <<vec, written, tracked, table, expected, phase, calls, script>>

\* VM::defineNative("now", clockNative) called by the embedding program
DefineNative ==
    /\ phase = "idle"
    /\ ret.op \in {"none", "interpret"}
    /\ vm' = Exec("defineNative", vm, <<NowChars>>)
    /\ phase' = PhaseAfter([vm' EXCEPT !.ret = "Ok"])
    /\ ret' = [op |-> "defineNative", stackTop |-> vm.stackTop, globals |-> vm.globals]
    /\ UNCHANGED <<vec, written, tracked, table, expected, calls, script>>

NextVM ==
    \/ \E p \in DOMAIN Sources : Interpret(p)
    \/ Step
    \/ Reset
    \/ DefineNative

SpecVM == InitVM /\ [][NextVM]_vars

(***************************************************************************)
(* Claims about the interpreter, checked under SpecVM.                     *)
(***************************************************************************)
\* The code of the function of the current frame
FrameCode(m) == m.heap[FrameFunction(m, currentFrame(m))].chunk.code

\* Is run() about to execute an instruction of a frame
AtInstruction(m) ==
    /\ Running(m)
    /\ m.frameCount > 0
    /\ currentFrame(m).ip < FrameCode(m).count

\* The instruction run() executes next, and the operand bytes that follow it
NextOp(m) == IF AtInstruction(m) THEN FrameCode(m).data[currentFrame(m).ip + 1] ELSE 0 - 1
Operand(m, k) == FrameCode(m).data[currentFrame(m).ip + 1 + k]

\* The constant that the first operand byte of the next instruction names
OperandConstant(m) ==
    m.heap[FrameFunction(m, currentFrame(m))].chunk.constants.data[Operand(m, 1) + 1]

\* interpret has returned this result to its caller
Returned(result) == phase = "idle" /\ ret.op = "interpret" /\ ret.result = result

\* interpret was called with this source and has returned
Finished(source) ==
    /\ phase # "running"
    /\ ret.op = "interpret"
    /\ Sources[ret.source] = source

\* The lines printed by the interpret call that ret describes
Printed == SubSeq(vm.out, ret.printed + 1, Len(vm.out))

\* C1 (as claimed): when interpret returns RuntimeError the value stack and
\* the frame stack are empty, so that the frames of a later call are those
\* of its own script only.
C1_RuntimeErrorEmptiesStacks ==
    /\ Returned("RuntimeError") => vm.stackTop = 0 /\ vm.frameCount = 0
    /\ phase = "running" /\ Running(vm) => vm.frames[1].closure = script

\* C6 (as claimed): the closure returned by make keeps its captured variable
\* after make has returned, so the three calls of it print 1, 2 and 3.
C6_CounterYieldsOneTwoThree ==
    Finished(CounterSource) =>
        /\ ret.result = "Ok"
        /\ Printed = << <<49>>, <<50>>, <<51>> >>

\* C7 (as claimed): ADD on two Strings a (below) and b (top) leaves the
\* String of a's bytes followed by b's bytes in their place.
C7_AddConcatenatesInOrder ==
    [][(/\ phase = "running"
        /\ NextOp(vm) = OP_ADD
        /\ isObjType(vm, peek(vm, 0), "String")
        /\ isObjType(vm, peek(vm, 1), "String"))
       => (/\ Running(vm')
           /\ vm'.stackTop = vm.stackTop - 1
           /\ isObjType(vm', peek(vm', 0), "String")
           /\ vm'.heap[peek(vm', 0).obj].chars
                 = vm.heap[peek(vm, 1).obj].chars \o vm.heap[peek(vm, 0).obj].chars)]_vars

\* C8 (as claimed): super.greet() in a method of B, a subclass of A, compiles
\* and runs A's greet: B().greet() prints A, then B.
C8_SuperCallsSuperclassMethod ==
    Finished(SuperSource) =>
        /\ ret.result = "Ok"
        /\ Printed = << <<65>>, <<66>> >>

\* The keys of a table of methods
MethodNames(t) == {t.entries[i].key : i \in 0 .. t.capacity - 1} \ {NULL}

\* C9 (as claimed): after INHERIT with a superclass that is a Class, every
\* method name of the parent is in the child's table with the same closure.
C9_InheritCopiesEveryMethod ==
    [][(/\ phase = "running"
        /\ NextOp(vm) = OP_INHERIT
        /\ isObjType(vm, peek(vm, 1), "Class")
        /\ isObjType(vm, peek(vm, 0), "Class"))
       => \A name \in MethodNames(vm.heap[peek(vm, 1).obj].methods) :
             LET parent == TableGet(vm.heap, vm.heap[peek(vm, 1).obj].methods, name)
                 child == TableGet(vm'.heap, vm'.heap[peek(vm, 0).obj].methods, name)
             IN  child.result /\ child.value = parent.value]_vars

\* Equality of two values as the specification defines it
SameValue(m, a, b) ==
    /\ a.type = b.type
    /\ CASE a.type = "Nil" -> TRUE
         [] a.type = "Bool" -> a.boolean = b.boolean
         [] a.type = "Number" -> a.number = b.number
         [] OTHER ->
              IF isObjType(m, a, "String") /\ isObjType(m, b, "String")
              THEN m.heap[a.obj].chars = m.heap[b.obj].chars
              ELSE a.obj = b.obj

\* C10 (as claimed): EQUAL pushes true exactly for two Nils, two Bools or
\* Numbers of the same content, two Strings of the same bytes, and an
\* object compared with itself.
C10_EqualComparesValues ==
    [][(phase = "running" /\ NextOp(vm) = OP_EQUAL /\ Running(vm'))
       => peek(vm', 0) = makeBool(SameValue(vm, peek(vm, 1), peek(vm, 0)))]_vars

\* Is the value a Closure that takes argCount arguments
ClosureOfArity(m, v, argCount) ==
    /\ isObjType(m, v, "Closure")
    /\ m.heap[m.heap[v.obj].function].arity = argCount

\* Has the step reported this runtime error
Reported(m, n, message) ==
    /\ Len(n.err) = Len(m.err) + 1
    /\ n.err[Len(n.err)].message = message

\* C11 (as claimed): the frame count never exceeds 64; the call that would
\* make the 65th frame pushes no frame, reports "Stack overflow." and
\* makes interpret return RuntimeError.
C11_FrameLimit ==
    [][/\ vm'.frameCount <= kFramesMax
       /\ (/\ phase = "running"
           /\ NextOp(vm) = OP_CALL
           /\ ClosureOfArity(vm, peek(vm, Operand(vm, 1)), Operand(vm, 1))
           /\ vm.frameCount = kFramesMax)
          => (/\ vm'.frameCount = vm.frameCount
              /\ Reported(vm, vm', "Stack overflow.")
              /\ Outcome(vm') = "RuntimeError")]_vars

\* The names of the globals, as bytes
GlobalNames(m) == {m.heap[key].chars : key \in MethodNames(m.globals)}

\* The messages of Parser::errorAt carry the line of a token
ParserErrors(m) == {i \in 1 .. Len(m.err) : m.err[i].line > 0}

\* C12: when the compiler reports an error in a call of interpret, the call
\* returns CompileError and runs nothing: nothing is printed, no frame is
\* pushed, and the globals are those of before the call (and clock).
C12_CompileErrorRunsNothing ==
    [][(/\ calls' = calls + 1
        /\ Running(vm')
        /\ ParserErrors(vm') # ParserErrors(vm))
       => (/\ ret'.result = "CompileError"
           /\ phase' = "idle"
           /\ vm'.out = vm.out
           /\ vm'.frameCount = vm.frameCount
           /\ GlobalNames(vm') \subseteq GlobalNames(vm) \cup {ClockChars}
           /\ \A key \in MethodNames(vm.globals) :
                 TableGet(vm'.heap, vm'.globals, key) = TableGet(vm.heap, vm.globals, key))]_vars

\* C12 witness: the source with an error after a print statement and a
\* function declaration has returned CompileError.
C12_Witness ==
    /\ Finished(CompileErrorSource)
    /\ ret.result = "CompileError"
    /\ ParserErrors(vm) # {}
    /\ Printed = <<>>

\* The keys of the intern table
InternedKeys(m) == MethodNames(m.strings)

\* C13 (as claimed): reset leaves no tracked object, global, intern-table
\* entry, frame, stack value or open upvalue of the earlier runs.
C13_ResetLeavesNothing ==
    ret.op = "reset" =>
        /\ vm.objects = <<>>
        /\ MethodNames(vm.globals) = {}
        /\ InternedKeys(vm) = {}
        /\ vm.frameCount = 0
        /\ vm.stackTop = 0
        /\ vm.openUpvalues = NULL

\* C14 (as claimed): after defineNative("now", fn) the global now is bound
\* to a Native, and the other globals are bound as before the call.
C14_DefineNativeBindsName ==
    ret.op = "defineNative" =>
        /\ Running(vm)
        /\ \E key \in MethodNames(vm.globals) :
              /\ vm.heap[key].chars = NowChars
              /\ isObjType(vm, TableGet(vm.heap, vm.globals, key).value, "Native")
        /\ \A key \in MethodNames(ret.globals) :
              vm.heap[key].chars # NowChars =>
                  TableGet(vm.heap, vm.globals, key) = TableGet(vm.heap, ret.globals, key)

\* The objects that the fields of a Value or of a table refer to
ValueRefs(v) == IF isObj(v) THEN {v.obj} ELSE {}
TableRefs(t) ==
    UNION {{t.entries[i].key} \cup ValueRefs(t.entries[i].value) : i \in 0 .. t.capacity - 1}

\* The objects that the fields of an object refer to (object.hpp)
Refs(m, obj) ==
    LET o == m.heap[obj]
    IN  (CASE o.type = "Closure" ->
                {o.function} \cup {o.upvalues.data[i] : i \in 1 .. o.upvalues.count}
           [] o.type = "Function" ->
                {o.name} \cup UNION {ValueRefs(o.chunk.constants.data[i]) :
                                        i \in 1 .. o.chunk.constants.count}
           [] o.type = "Upvalue" -> ValueRefs(o.closed)
           [] o.type = "Class" -> {o.name} \cup TableRefs(o.methods)
           [] o.type = "Instance" -> {o.klass} \cup TableRefs(o.fields)
           [] o.type = "BoundMethod" -> ValueRefs(o.receiver) \cup {o.method}
           [] OTHER -> {}) \ {NULL}

\* The roots of a collection
Roots(m) ==
    (UNION {ValueRefs(m.stack[i]) : i \in 1 .. m.stackTop}
        \cup {m.frames[f].closure : f \in 1 .. m.frameCount}
        \cup openUpvalueList(m, m.openUpvalues)
        \cup TableRefs(m.globals)
        \cup compilerFunctions(m, m.active)
        \cup {m.initString}) \ {NULL}

\* The objects not yet freed that are reached from the objects of found
\* through objects not yet freed
RECURSIVE ReachableFrom(_, _)
ReachableFrom(m, found) ==
    LET live == {obj \in found : ~m.heap[obj].freed}
        more == live \cup UNION {Refs(m, obj) : obj \in live}
    IN  IF more \subseteq found THEN live ELSE ReachableFrom(m, found \cup more)

Reachable(m) == ReachableFrom(m, Roots(m))

C18_ConstantsAreRooted ==
    vm.stackTop <= Len(vm.stack) =>
        \A obj \in Reachable(vm) :
            vm.heap[obj].type = "Function" =>
                \A i \in 1 .. vm.heap[obj].chunk.constants.count :
                    LET constant == vm.heap[obj].chunk.constants.data[i]
                    IN  isObj(constant) => ~vm.heap[constant.obj].freed

\* The name operand of the instruction about to be executed
OperandName(m) == m.heap[OperandConstant(m).obj].chars

\* C19: SET_GLOBAL on a name that is not defined as a global reports the
\* error for an unknown variable, makes interpret return RuntimeError and
\* leaves the name undefined, however often it was attempted before.
C19_SetGlobalOfUndefinedFails ==
    [][(/\ phase = "running"
        /\ NextOp(vm) = OP_SET_GLOBAL
        /\ OperandName(vm) \notin GlobalNames(vm)
        /\ Running(vm'))
        => /\ Outcome(vm') = "RuntimeError"
           /\ Len(vm'.err) = Len(vm.err) + 1
           /\ OperandName(vm) \notin GlobalNames(vm')]_vars

\* C20: the operand of every GET_UPVALUE and SET_UPVALUE that is about to
\* be executed is a position in the upvalue table of the function of the
\* current frame: it is less than the function's upvalueCount.
C20_UpvalueOperandIsTablePosition ==
    (/\ phase = "running"
     /\ NextOp(vm) \in {OP_GET_UPVALUE, OP_SET_UPVALUE})
        => Operand(vm, 1) < vm.heap[FrameFunction(vm, currentFrame(vm))].upvalueCount

\* The Upvalue objects that exist and are not closed
OpenUpvalues(m) ==
    {obj \in 1 .. Len(m.heap) :
        /\ m.heap[obj].type = "Upvalue"
        /\ ~m.heap[obj].freed
        /\ m.heap[obj].location # ClosedLocation}

\* C21: between instructions and after interpret has returned, every
\* Upvalue that is not closed points to a slot below stackTop and is in the
\* open-upvalue list, and every Upvalue of the list is not closed.
C21_OpenUpvaluesPointIntoLiveStack ==
    (phase \in {"running", "idle"} /\ ret.op = "interpret") =>
        /\ \A obj \in OpenUpvalues(vm) :
              /\ vm.heap[obj].location < vm.stackTop
              /\ obj \in openUpvalueList(vm, vm.openUpvalues)
        /\ openUpvalueList(vm, vm.openUpvalues) \subseteq OpenUpvalues(vm)

\* What closeUpvalues(last) has to make of the open upvalues of m
ClosedFrom(m, last, n) ==
    \A obj \in openUpvalueList(m, m.openUpvalues) :
        IF m.heap[obj].location >= last
        THEN /\ n.heap[obj].closed = StackAt(m, m.heap[obj].location)
             /\ n.heap[obj].location = ClosedLocation
             /\ obj \notin openUpvalueList(n, n.openUpvalues)
        ELSE /\ n.heap[obj] = m.heap[obj]
             /\ obj \in openUpvalueList(n, n.openUpvalues)

\* The machine after the instruction that is about to be executed
AfterInstruction(m) == Exec("runInstruction", m, <<>>)

\* C22: from any state between two instructions closeUpvalues(last) closes
\* exactly the open upvalues with location >= last, giving each the value
\* of its slot, and leaves the others open and unchanged; RETURN leaves no
\* open upvalue at or above the base of the returning frame, and
\* CLOSE_UPVALUE closes the upvalue of the top stack slot.
C22_CloseUpvaluesClosesFromLast ==
    phase = "running" =>
        /\ \A last \in 0 .. vm.stackTop :
              LET closed == Exec("closeUpvalues", vm, <<last>>)
              IN  Running(closed) => ClosedFrom(vm, last, closed)
        /\ (NextOp(vm) = OP_RETURN /\ Running(AfterInstruction(vm))) =>
              \A obj \in openUpvalueList(vm, vm.openUpvalues) :
                  vm.heap[obj].location >= currentFrame(vm).slots =>
                      /\ AfterInstruction(vm).heap[obj].location = ClosedLocation
                      /\ AfterInstruction(vm).heap[obj].closed =
                            StackAt(vm, vm.heap[obj].location)
        /\ (NextOp(vm) = OP_RETURN /\ Running(AfterInstruction(vm))) =>
              \A obj \in OpenUpvalues(AfterInstruction(vm)) :
                  AfterInstruction(vm).heap[obj].location < currentFrame(vm).slots
        /\ (NextOp(vm) = OP_CLOSE_UPVALUE /\ Running(AfterInstruction(vm))) =>
              ClosedFrom(vm, vm.stackTop - 1, AfterInstruction(vm))

\* C22 witness: CLOSE_UPVALUE is about to close the upvalue of the top slot
\* while an upvalue of a lower slot is open, too.
C22_Witness ==
    /\ phase = "running"
    /\ NextOp(vm) = OP_CLOSE_UPVALUE
    /\ Running(AfterInstruction(vm))
    /\ \E top, low \in openUpvalueList(vm, vm.openUpvalues) :
          /\ vm.heap[top].location = vm.stackTop - 1
          /\ vm.heap[low].location < vm.stackTop - 1
          /\ AfterInstruction(vm).heap[top].location = ClosedLocation
          /\ AfterInstruction(vm).heap[low].location = vm.heap[low].location

\* The locations of the upvalues of the open list, from its head
RECURSIVE openLocations(_, _)
openLocations(m, upvalue) ==
    IF upvalue = NULL THEN <<>>
    ELSE <<m.heap[upvalue].location>> \o openLocations(m, m.heap[upvalue].next)

\* C23: the open-upvalue list is strictly decreasing by stack slot, so no
\* slot has two open upvalues, and captureUpvalue of a slot that has an
\* open upvalue returns that upvalue and allocates nothing.
C23_OpenListStrictlyDecreasing ==
    LET locations == openLocations(vm, vm.openUpvalues)
    IN  /\ \A i, j \in 1 .. Len(locations) : i < j => locations[i] > locations[j]
        /\ Running(vm) =>
              \A obj \in openUpvalueList(vm, vm.openUpvalues) :
                  LET captured == Exec("captureUpvalue", vm, <<vm.heap[obj].location>>)
                  IN  /\ captured.ret = obj
                      /\ captured.heap = vm.heap
                      /\ captured.openUpvalues = vm.openUpvalues

\* C23 witness: two upvalues are open and the slot of the second one of the
\* list is captured again.
C23_Witness ==
    /\ Running(vm)
    /\ Len(openLocations(vm, vm.openUpvalues)) >= 2
    /\ LET second == vm.heap[vm.openUpvalues].next
       IN  Exec("captureUpvalue", vm, <<vm.heap[second].location>>).ret = second

\* The number of arguments of the CALL that is about to be executed
CallArgs(m) == Operand(m, 1)

\* C24: CALL argc on a Closure of arity argc pushes a frame whose base is
\* the callee's slot, stackTop - argc - 1, with the arguments above it, and
\* advances the caller past the CALL; RETURN of a called frame trims the
\* stack to that base, pushes the result, removes the frame and leaves the
\* frames below as they were.
C24_CallAndReturnFrames ==
    [][/\ (/\ phase = "running"
           /\ NextOp(vm) = OP_CALL
           /\ ClosureOfArity(vm, peek(vm, CallArgs(vm)), CallArgs(vm))
           /\ vm.frameCount < kFramesMax
           /\ Running(vm'))
          => (/\ vm'.frameCount = vm.frameCount + 1
              /\ currentFrame(vm').slots = vm.stackTop - CallArgs(vm) - 1
              /\ currentFrame(vm').closure = peek(vm, CallArgs(vm)).obj
              /\ currentFrame(vm').ip = 0
              /\ vm'.stackTop = vm.stackTop
              /\ \A k \in 0 .. CallArgs(vm) :
                    StackAt(vm', currentFrame(vm').slots + k) = peek(vm, CallArgs(vm) - k)
              /\ vm'.frames[vm.frameCount] =
                    [vm.frames[vm.frameCount] EXCEPT !.ip = @ + 2]
              /\ \A f \in 1 .. vm.frameCount - 1 : vm'.frames[f] = vm.frames[f])
       /\ (/\ phase = "running"
           /\ NextOp(vm) = OP_RETURN
           /\ vm.frameCount > 1
           /\ Running(vm'))
          => (/\ vm'.stackTop = currentFrame(vm).slots + 1
              /\ peek(vm', 0) = peek(vm, 0)
              /\ vm'.frameCount = vm.frameCount - 1
              /\ \A f \in 1 .. vm.frameCount - 1 : vm'.frames[f] = vm.frames[f])]_vars

\* C24 witness: a frame called with two arguments is about to return to
\* its caller, and the return leaves the result in the callee's slot.
C24_Witness ==
    /\ phase = "running"
    /\ NextOp(vm) = OP_RETURN
    /\ vm.frameCount = 2
    /\ vm.heap[FrameFunction(vm, currentFrame(vm))].arity = 2
    /\ Running(AfterInstruction(vm))
    /\ AfterInstruction(vm).frameCount = 1
    /\ AfterInstruction(vm).stackTop = currentFrame(vm).slots + 1
    /\ peek(AfterInstruction(vm), 0) = peek(vm, 0)

\* Is v a closure of the function with this name
ClosureNamed(m, v, chars) ==
    /\ isObjType(m, v, "Closure")
    /\ m.heap[m.heap[v.obj].function].name # NULL
    /\ m.heap[m.heap[m.heap[v.obj].function].name].chars = chars

\* C25: a class declaration with a superclass clause leaves the stack as
\* deep as one without, so a local declared after it is read from the slot
\* the compiler gave it: in ClassLocalSource, where f declares class B < A
\* and then the function g, the value that print g prints is g's closure.
C25_LocalAfterSubclassKeepsItsSlot ==
    (/\ phase = "running"
     /\ Sources[ret.source] = ClassLocalSource
     /\ vm.frameCount = 2
     /\ NextOp(vm) = OP_PRINT)
        => ClosureNamed(vm, peek(vm, 0), <<103>>)

\* The field tables of the instances
FieldTables(m) ==
    [obj \in {o \in 1 .. Len(m.heap) : m.heap[o].type = "Instance"} |-> m.heap[obj].fields]

\* C26: SET_PROPERTY on a receiver that is not an Instance reports a
\* runtime error, writes no field table and makes interpret return
\* RuntimeError.
C26_SetPropertyChecksReceiver ==
    [][(/\ phase = "running"
        /\ NextOp(vm) = OP_SET_PROPERTY
        /\ ~isObjType(vm, peek(vm, 1), "Instance"))
        => /\ Outcome(vm') = "RuntimeError"
           /\ Reported(vm, vm', "Object instances have fields.")
           /\ FieldTables(vm') = FieldTables(vm)]_vars

\* Does the instruction about to be executed have operands it accepts
OperandsAccepted(m) ==
    \/ isNumber(peek(m, 0)) /\ isNumber(peek(m, 1))
    \/ /\ NextOp(m) = OP_ADD
       /\ isObjType(m, peek(m, 0), "String")
       /\ isObjType(m, peek(m, 1), "String")

\* C27: an arithmetic or comparison instruction whose operands are not of
\* an accepted type makes interpret return RuntimeError and pushes no
\* result; it neither ends the process nor computes a value.
C27_ArithmeticChecksOperands ==
    [][(/\ phase = "running"
        /\ \/ /\ NextOp(vm) \in {OP_ADD, OP_SUBTRACT, OP_MULTIPLY, OP_DIVIDE,
                                 OP_GREATER, OP_LESS}
              /\ ~OperandsAccepted(vm)
           \/ /\ NextOp(vm) = OP_NEGATE
              /\ ~isNumber(peek(vm, 0)))
        => /\ Running(vm')
           /\ Outcome(vm') = "RuntimeError"
           /\ vm'.stackTop <= vm.stackTop
           /\ Len(vm'.err) = Len(vm.err) + 1]_vars

\* The types of the objects that callValue calls
CallableTypes == {"Closure", "Class", "BoundMethod", "Native"}

Callable(m, v) == isObj(v) /\ m.heap[v.obj].type \in CallableTypes

\* C28: CALL on a value that is not a Closure, a Class, a BoundMethod or a
\* Native reports "Can only call closures and classes.", pushes no frame
\* and makes interpret return RuntimeError.
C28_CallOfNonCallableFails ==
    [][(/\ phase = "running"
        /\ NextOp(vm) = OP_CALL
        /\ ~Callable(vm, peek(vm, CallArgs(vm))))
        => /\ Outcome(vm') = "RuntimeError"
           /\ Reported(vm, vm', "Can only call closures and classes.")
           /\ vm'.frameCount = vm.frameCount]_vars

\* The machine after GET_PROPERTY name and CALL 0 executed in the place of
\* the INVOKE name 0 that is about to be executed
AfterGetPropertyAndCall(m) ==
    LET property == Exec("runClass", Exec("readByte", m, <<>>), <<OP_GET_PROPERTY>>)
    IN  IF Running(property) /\ property.ret = "Continue"
        THEN Exec("runControl", property, <<OP_CALL>>)
        ELSE property

\* The stack below stackTop
LiveStack(m) == [i \in 1 .. m.stackTop |-> StackAt(m, i - 1)]

\* C29: INVOKE name 0 has the outcome of GET_PROPERTY name followed by
\* CALL 0 on the same stack: the same result of the instruction, the same
\* errors reported, and the same frames and stack when execution goes on.
C29_InvokeIsGetPropertyThenCall ==
    (/\ phase = "running"
     /\ NextOp(vm) = OP_INVOKE
     /\ Operand(vm, 2) = 0)
        => /\ Outcome(AfterInstruction(vm)) = Outcome(AfterGetPropertyAndCall(vm))
           /\ AfterInstruction(vm).err = AfterGetPropertyAndCall(vm).err
           /\ Outcome(AfterInstruction(vm)) = "Continue" =>
                 /\ AfterInstruction(vm).frameCount = AfterGetPropertyAndCall(vm).frameCount
                 /\ currentFrame(AfterInstruction(vm)) =
                       currentFrame(AfterGetPropertyAndCall(vm))
                 /\ LiveStack(AfterInstruction(vm)) = LiveStack(AfterGetPropertyAndCall(vm))

(***************************************************************************)
(* Scanner driver: a program text of two words is given to initScanner     *)
(* and read token by token with scanToken, as Parser::advance does.        *)
(***************************************************************************)
\* The sixteen keywords with their token types (scanner.hpp)
Keywords ==
    << [chars |-> <<97, 110, 100>>, type |-> "And"],
       [chars |-> <<111, 114>>, type |-> "Or"],
       [chars |-> <<105, 102>>, type |-> "If"],
       [chars |-> <<101, 108, 115, 101>>, type |-> "Else"],
       [chars |-> <<119, 104, 105, 108, 101>>, type |-> "While"],
       [chars |-> <<102, 111, 114>>, type |-> "For"],
       [chars |-> <<114, 101, 116, 117, 114, 110>>, type |-> "Return"],
       [chars |-> <<99, 108, 97, 115, 115>>, type |-> "Class"],
       [chars |-> <<102, 117, 110>>, type |-> "Fun"],
       [chars |-> <<118, 97, 114>>, type |-> "Var"],
       [chars |-> <<112, 114, 105, 110, 116>>, type |-> "Print"],
       [chars |-> <<115, 117, 112, 101, 114>>, type |-> "Super"],
       [chars |-> <<116, 104, 105, 115>>, type |-> "This"],
       [chars |-> <<110, 105, 108>>, type |-> "Nil"],
       [chars |-> <<116, 114, 117, 101>>, type |-> "True"],
       [chars |-> <<102, 97, 108, 115, 101>>, type |-> "False"] >>

\* Words that are not keywords: orchid, format, classy, x, f, t, an, thus, i2
Names ==
    { <<111, 114, 99, 104, 105, 100>>,
      <<102, 111, 114, 109, 97, 116>>,
      <<99, 108, 97, 115, 115, 121>>,
      <<120>>,
      <<102>>,
      <<116>>,
      <<97, 110>>,
      <<116, 104, 117, 115>>,
      <<105, 50>> }

Words == {Keywords[k].chars : k \in DOMAIN Keywords} \cup Names

\* The program texts: two words with a space between them
Texts == {first \o <<32>> \o second : first \in Words, second \in Words}

InitScan ==
    /\ vm = NewVM(TRUE, FALSE, FALSE)
    /\ table = NewTable
    /\ expected = [k \in Keys |-> NoValue]
    /\ ret = [op |-> "none"]
    /\ phase = "idle"
    /\ calls = 0
    /\ script = NULL
    /\ vec = NewVector
    /\ written = <<>>
    /\ tracked = TRUE

\* initScanner(source)
ScanInit(source) ==
    /\ phase = "idle"
    /\ ret.op = "none"
    /\ vm' = [vm EXCEPT !.scanner = initScanner(source)]
    /\ ret' = [op |-> "initScanner"]
    /\ phase' = "scanning"
    /\ UNCHANGED <<vec, written, tracked, table, expected, calls, script>>

\* scanToken(), until it has returned the Eof token
ScanToken ==
    /\ phase = "scanning"
    /\ vm' = Exec("scanToken", vm, <<>>)
    /\ ret' = [op |-> "scanToken", token |-> vm'.ret]
    /\ phase' = IF vm'.ret.type = "Eof" THEN "idle" ELSE "scanning"
    /\ UNCHANGED <<vec, written, tracked, table, expected, calls, script>>

NextScan ==
    \/ \E source \in Texts : ScanInit(source)
    \/ ScanToken

SpecScanner == InitScan /\ [][NextScan]_vars

(***************************************************************************)
(* Claims about the scanner, checked under SpecScanner.                    *)
(***************************************************************************)
\* The token type the keyword table gives to a lexeme
KeywordType(lexeme) ==
    IF \E k \in DOMAIN Keywords : Keywords[k].chars = lexeme
    THEN Keywords[CHOOSE k \in DOMAIN Keywords : Keywords[k].chars = lexeme].type
    ELSE "Identifier"

\* C30: a lexeme of letters, digits and underscores gets a keyword token
\* type exactly when the whole lexeme is that keyword, and is an
\* Identifier otherwise.
C30_KeywordIffWholeLexeme ==
    (ret.op = "scanToken" /\ ret.token.type # "Eof")
        => ret.token.type = KeywordType(ret.token.lexeme)

(***************************************************************************)
(* The compiler in the middle of a statement with a jump: the driver of    *)
(* the claims about emitJump, emitLoop and patchJump.  The source text of  *)
(* a branch of 65,536 bytes is not scanned: Init is the compiler after the *)
(* condition, the OP_JUMP_IF_FALSE and the body of `if (c) body` or of     *)
(* `while (c) body`, with what is left of the source empty.                *)
(***************************************************************************)
\* How far past the 16 bit limit the distances go
MaxOvershoot == 2

\* The distances from the operand of the OP_JUMP_IF_FALSE to its target
Distances == {6, 7, 255, 256, 257} \cup (kUInt16Max - 5 .. kUInt16Max + MaxOvershoot)

JumpKinds == {"if", "while"}

\* The state keeps the two long vectors of the chunk folded: the bytes of
\* the body and their lines are kept as a length, the rest as it is.  A
\* chunk whose body is no longer Body(n) is kept whole in head.  The value
\* a void function leaves in ret of the machine is dropped.
\* The bytes before the body: the condition, the OP_JUMP_IF_FALSE with its
\* operand and the OP_POP
HeadLen == 1 + 3 + 1

FoldedData(data, body) ==
    IF Len(data) >= HeadLen + Len(body) /\ SubSeq(data, HeadLen + 1, HeadLen + Len(body)) = body
    THEN [head |-> SubSeq(data, 1, HeadLen), body |-> Len(body),
          tail |-> SubSeq(data, HeadLen + Len(body) + 1, Len(data))]
    ELSE [head |-> data, body |-> 0 - 1, tail |-> <<>>]

Folded(m, fn, n) ==
    [m EXCEPT !.heap[fn].chunk.code.data = FoldedData(@, Body(n)),
              !.heap[fn].chunk.lines.data = FoldedData(@, Repeated(<<0>>, n))]

Unfolded(m, fn) ==
    LET code == m.heap[fn].chunk.code.data
        lines == m.heap[fn].chunk.lines.data
    IN  [m EXCEPT !.heap[fn].chunk.code.data =
                      IF code.body < 0 THEN code.head
                      ELSE code.head \o Body(code.body) \o code.tail,
                  !.heap[fn].chunk.lines.data =
                      IF lines.body < 0 THEN lines.head
                      ELSE lines.head \o Repeated(<<0>>, lines.body) \o lines.tail]

\* The machine of the state
JumpMachine == Unfolded(vm, ret.function)

InitJump ==
    /\ \E debug \in BOOLEAN, condition \in {OP_FALSE, OP_NIL}, distance \in Distances,
          kind \in JumpKinds :
          LET start(m) ==
                  /\ vm = Folded([m EXCEPT !.ret = NULL], CompilerFunction(m, m.active),
                                 distance - 4)
                  /\ script = m.active
                  /\ ret = [op |-> "body", kind |-> kind,
                            function |-> CompilerFunction(m, m.active),
                            body |-> distance - 4, jump |-> m.ret, distance |-> 0,
                            loop |-> 0, back |-> 0, elseJump |-> 0]
          IN  start(Exec("compileBody", NewVM(debug, FALSE, FALSE), <<condition, distance - 4>>))
    /\ phase = "body"
    /\ calls = 0
    /\ table = NewTable
    /\ expected = [k \in Keys |-> NoValue]
    /\ vec = NewVector
    /\ written = <<>>
    /\ tracked = TRUE

\* Compiler::emitLoop at the end of the body of a while statement; the loop
\* began with the condition, at offset 0
EmitLoop ==
    /\ phase = "body"
    /\ ret.kind = "while"
    /\ vm' = Folded([Exec("emitLoop", JumpMachine, <<script, 0>>) EXCEPT !.ret = NULL],
                    ret.function, ret.body)
    /\ phase' = IF Running(vm') THEN "patching" ELSE "stopped"
    /\ ret' = [ret EXCEPT !.op = "emitLoop", !.loop = CodeCount(vm', script) - 2,
                          !.back = CodeCount(vm', script)]
    /\ UNCHANGED <<table, expected, calls, script, vec, written, tracked>>

\* Compiler::emitJump(OP_JUMP) at the end of the then branch of an if
\* statement
EmitJump ==
    /\ phase = "body"
    /\ ret.kind = "if"
    /\ vm' = Folded(Exec("emitJump", JumpMachine, <<script, OP_JUMP>>), ret.function, ret.body)
    /\ phase' = IF Running(vm') THEN "patching" ELSE "stopped"
    /\ ret' = [ret EXCEPT !.op = "emitJump", !.elseJump = vm'.ret]
    /\ UNCHANGED <<table, expected, calls, script, vec, written, tracked>>

\* Compiler::patchJump of the OP_JUMP_IF_FALSE
PatchJump ==
    /\ phase = "patching"
    /\ vm' = Folded([Exec("patchJump", JumpMachine, <<script, ret.jump>>) EXCEPT !.ret = NULL],
                    ret.function, ret.body)
    /\ phase' = IF Running(vm') THEN "patched" ELSE "stopped"
    /\ ret' = [ret EXCEPT !.op = "patchJump",
                          !.distance = CodeCount(vm, script) - ret.jump - 2]
    /\ UNCHANGED <<table, expected, calls, script, vec, written, tracked>>

\* What is left of the statement, of compile and of interpret after the
\* patchJump
Finish ==
    /\ phase = "patched"
    /\ vm' = Folded(Exec("finishStatement", JumpMachine, <<script, ret.kind, ret.elseJump>>),
                    ret.function, ret.body)
    /\ phase' = PhaseAfter(vm')
    /\ ret' = [ret EXCEPT !.op = "interpret"]
    /\ UNCHANGED <<table, expected, calls, script, vec, written, tracked>>

\* The instructions run() executes before the limit of the check
MaxJumpSteps == 3

\* One iteration of the loop of VM::run
JumpStep ==
    /\ phase = "running"
    /\ calls < MaxJumpSteps
    /\ vm' = Folded(Exec("runInstruction", JumpMachine, <<>>), ret.function, ret.body)
    /\ phase' = PhaseAfter(vm')
    /\ calls' = calls + 1
    /\ ret' = [ret EXCEPT !.op = "step"]
    /\ UNCHANGED <<table, expected, script, vec, written, tracked>>

NextJump ==
    \/ EmitLoop
    \/ EmitJump
    \/ PatchJump
    \/ Finish
    \/ JumpStep

SpecJump == InitJump /\ [][NextJump]_vars

(***************************************************************************)
(* Claims about jumps, checked under SpecJump.                             *)
(***************************************************************************)
\* The 16 bit big-endian operand at an offset of a code vector, as
\* VM::readShort decodes it
ShortAt(code, offset) == code.data[offset + 1] * 256 + code.data[offset + 2]

\* C31 (as claimed): a patched forward jump of at most 65,535 bytes compiles,
\* one of 65,536 bytes or more is reported as a compile error, and in a chunk
\* that interpret runs the operand of every OP_JUMP, OP_JUMP_IF_FALSE and
\* OP_LOOP is the real distance to its target.
C31_JumpOperandIsDistance ==
    /\ phase = "patched" /\ ret.distance > kUInt16Max => JumpMachine.parser.hadError
    /\ phase = "patched" /\ ret.kind = "if" /\ ret.distance <= kUInt16Max => ~JumpMachine.parser.hadError
    /\ phase = "running" =>
          /\ ShortAt(FrameCode(JumpMachine), ret.jump) = ret.distance
          /\ ret.kind = "while" => ShortAt(FrameCode(JumpMachine), ret.loop) = ret.back
          /\ ret.kind = "if" => ShortAt(FrameCode(JumpMachine), ret.elseJump) = 1

(***************************************************************************)
(* Further claims about the interpreter, checked under SpecVM.             *)
(***************************************************************************)
\* "A instance"
AInstanceChars == <<65, 32, 105, 110, 115, 116, 97, 110, 99, 101>>

\* C32 (as claimed): in an initializer `return 1;` is a compile error, while
\* a bare `return;` compiles and the call of the class yields the new
\* instance, which is printed.
C32_BareReturnInInitializerCompiles ==
    /\ Finished(InitReturnValueSource) /\ Running(vm) => ret.result = "CompileError"
    /\ Finished(InitReturnSource) /\ Running(vm) =>
          ret.result = "Ok" /\ Printed = <<AInstanceChars>>

\* The line of the instruction a frame was executing: its ip is one past it
ExecutingLine(m, frame) ==
    m.heap[FrameFunction(m, frame)].chunk.lines.data[frame.ip]

\* C33 (as claimed): a runtime error reports, for every active frame from
\* the newest to the oldest, the line of the instruction the frame was
\* executing; the index of that line is inside the chunk, so the report is
\* completed without an invalid read and interpret returns RuntimeError.
C33_TraceLinesAreInsideTheChunk ==
    [][(/\ phase = "running"
        /\ Len(vm'.err) = Len(vm.err) + 1)
        => /\ Outcome(vm') = "RuntimeError"
           /\ vm'.undefined = vm.undefined
           /\ Len(vm'.trace) = Len(vm.trace) + vm'.frameCount
           /\ \A j \in 1 .. vm'.frameCount :
                 LET frame == vm'.frames[vm'.frameCount + 1 - j]
                 IN  vm'.trace[Len(vm.trace) + j] =
                         [line |-> ExecutingLine(vm', frame),
                          function |-> FrameFunction(vm', frame)]]_vars

\* The objects of the list are white and no object is gray
AllWhite(m) ==
    /\ \A i \in 1 .. Len(m.objects) : ~m.heap[m.objects[i]].isMarked
    /\ m.grayStack = <<>>

\* C36: after every completed collection (those that ran inside the calls
\* made so far, and one that would start now) every object that remains in
\* the object list is unmarked and the gray stack is empty.
C36_CollectionLeavesAllWhite ==
    Running(vm) =>
        /\ AllWhite(vm)
        /\ LET collected == Exec("garbageCollect", vm, <<>>)
           IN  Running(collected) => AllWhite(collected)

\* C36 witness: inside VM::run, a collection has freed an object and left
\* a Closure and an Instance on the list.
C36_Witness ==
    /\ phase = "running"
    /\ Running(vm)
    /\ vm.nextGC # kInitialNextGC
    /\ \E o \in 1 .. Len(vm.heap) : vm.heap[o].freed
    /\ \E i, j \in 1 .. Len(vm.objects) :
          /\ vm.heap[vm.objects[i]].type = "Closure"
          /\ vm.heap[vm.objects[j]].type = "Instance"

\* The Closures that have been allocated and not freed
LiveClosures(m) ==
    {o \in 1 .. Len(m.heap) : m.heap[o].type = "Closure" /\ ~m.heap[o].freed}

\* C37 (as claimed): every Closure has as many upvalues as its Function's
\* upvalueCount, and once the CLOSURE instruction that made it has completed
\* every one of them is a non-null Upvalue read inside the arrays.
C37_ClosureUpvaluesAreFilled ==
    Running(vm) =>
        \A c \in LiveClosures(vm) :
            LET upvalues == vm.heap[c].upvalues
            IN  /\ upvalues.count = vm.heap[vm.heap[c].function].upvalueCount
                /\ Len(upvalues.data) = upvalues.count
                /\ \A i \in 1 .. upvalues.count :
                      /\ upvalues.data[i] # NULL
                      /\ vm.heap[upvalues.data[i]].type = "Upvalue"

\* The bytes of the buffer of a Vector tracked by the collector
VectorBytes(v, elemSize) == v.capacity * elemSize

\* The bytes of the tracked allocations that belong to object o: the object
\* itself, the three vectors of a Function's chunk, the upvalues of a Closure
ObjectBytes(m, o) ==
    LET obj == m.heap[o]
    IN  SizeofObj(obj.type)
        + (IF obj.type = "Function"
           THEN VectorBytes(obj.chunk.code, SizeofByte)
                + VectorBytes(obj.chunk.constants, SizeofValue)
                + VectorBytes(obj.chunk.lines, SizeofLine)
           ELSE 0)
        + (IF obj.type = "Closure" THEN VectorBytes(obj.upvalues, SizeofPointer) ELSE 0)

\* The summed sizes of the tracked allocations of the live objects 1 .. n
RECURSIVE LiveBytes(_, _)
LiveBytes(m, n) ==
    IF n = 0 THEN 0
    ELSE LiveBytes(m, n - 1) + (IF m.heap[n].freed THEN 0 ELSE ObjectBytes(m, n))

\* C38 (as claimed): bytesAllocated equals the summed sizes of the tracked
\* allocations that are live, the heap objects and the buffers of the
\* tracked Vectors, so it returns to its earlier value once everything
\* allocated since has been freed; it is never negative.
C38_BytesAllocatedCountsLiveBytes ==
    /\ vm.bytesAllocated >= 0
    /\ vm.bytesAllocated =
          LiveBytes(vm, Len(vm.heap)) + (IF tracked THEN VectorBytes(vec, SizeofInt) ELSE 0)

\* C39 (as claimed): in every state stackTop is inside the value stack,
\* 0 <= stackTop <= kStackMax: no push has written past the last slot and
\* no pop has read below the first one.
C39_StackTopStaysInsideTheStack ==
    /\ 0 <= vm.stackTop
    /\ vm.stackTop <= kStackMax

\* C40 (as claimed): when interpret has returned Ok the frame count is 0
\* and the value stack is empty, on the first call, which registers the
\* native functions, and on every later call.
C40_OkLeavesNoFrameAndNoValue ==
    (/\ ret.op = "interpret"
     /\ Running(vm)
     /\ ret.result = "Ok")
        => /\ vm.frameCount = 0
           /\ vm.stackTop = 0

=============================================================================
